---- MODULE Spec2Model ----
(***************************************************************************)
(* State-machine model of the digital-archaeology emulators: the Micro4,   *)
(* Micro8 and Micro16 CPU cores (src/src/micro*/cpu.c) and their two-pass  *)
(* assemblers (src/src/micro*/assembler.c).                                *)
(*                                                                         *)
(* Three specifications share the variables:                               *)
(*   Spec     one CPU of the chosen architecture running a loaded program, *)
(*            with interrupt requests and resets arriving between steps;   *)
(*   SpecAlu  one arithmetic instruction of the 8- or 16-bit CPU applied   *)
(*            to operands drawn from boundary sets;                        *)
(*   SpecAsm  an assembler working through a source, line by line, in its  *)
(*            two passes.                                                  *)
(***************************************************************************)
EXTENDS Integers, Sequences, FiniteSets, TLC

VARIABLES
    arch,   \* "micro4", "micro8" or "micro16": which emulator this run is
    image,  \* the program image loaded into the CPU at the start
    cpu,    \* the CPU structure (registers, flags, memory, counters)
    prev,   \* history: the CPU structure before the last operation
    mid,    \* history: the CPU structure of the last step after its
            \* interrupt dispatch and before its opcode fetch
    op,     \* history: the last operation and the one before it
    ret,    \* history: the value the last cpu_step returned
    as      \* the assembler structure and its position in the source

vars == <<arch, image, cpu, prev, mid, op, ret, as>>

(***************************************************************************)
(* Bounds of the model.                                                    *)
(***************************************************************************)
\* cpu_step is not called once this many instructions have been counted
MaxInstr == 7
\* interrupt vectors that request_interrupt is called with: 0 .. MaxVector
MaxVector == 1
\* operands of SpecAlu lie within Near of 0, of the sign boundary and of
\* the largest value of the width
Near == 1
\* sources of SpecAsm have at most this many lines
MaxLines == 3

(***************************************************************************)
(* Machine arithmetic.                                                     *)
(***************************************************************************)
RECURSIVE BitAnd(_, _)
BitAnd(a, b) ==
    IF a = 0 \/ b = 0 THEN 0
    ELSE (a % 2) * (b % 2) + 2 * BitAnd(a \div 2, b \div 2)

RECURSIVE BitXor(_, _)
BitXor(a, b) ==
    IF a = 0 THEN b
    ELSE IF b = 0 THEN a
    ELSE (((a % 2) + (b % 2)) % 2) + 2 * BitXor(a \div 2, b \div 2)

\* a flag word with the bits of mask m set, or cleared
SetBits(f, m) == f - BitAnd(f, m) + m
ClrBits(f, m) == f - BitAnd(f, m)
PutBits(f, m, on) == IF on THEN SetBits(f, m) ELSE ClrBits(f, m)
HasBits(f, m) == BitAnd(f, m) # 0
BitOr(a, b) == a + b - BitAnd(a, b)

\* a C array that starts zeroed: the cells that hold a non-zero value
EmptyMem == [x \in {} |-> 0]
Rd(mem, a) == IF a \in DOMAIN mem THEN mem[a] ELSE 0
Wr(mem, a, v) ==
    IF v = 0 THEN [x \in DOMAIN mem \ {a} |-> mem[x]]
    ELSE [x \in DOMAIN mem \cup {a} |-> IF x = a THEN v ELSE mem[x]]

\* error_msg: the format that was printed and its arguments
NoMsg == [text |-> "", x |-> 0, y |-> 0]
Msg(t, x, y) == [text |-> t, x |-> x, y |-> y]

(***************************************************************************)
(* Micro4 CPU: src/src/micro4/cpu.h, src/src/micro4/cpu.c                  *)
(***************************************************************************)
M4_MEM_SIZE == 256
M4_NIBBLE_MASK == 15
M4_OP_HLT == 0
M4_OP_LDA == 1
M4_OP_STA == 2
M4_OP_ADD == 3
M4_OP_SUB == 4
M4_OP_JMP == 5
M4_OP_JZ == 6
M4_OP_LDI == 7

\* the flags of the Micro4CPU structure
m4_flags(c) == [Z |-> c.z]

\* cpu_reset: everything but the memory
m4_cpu_reset(c) ==
    [pc |-> 0, a |-> 0, z |-> FALSE, ir |-> 0, mar |-> 0, mdr |-> 0,
     memory |-> c.memory, halted |-> FALSE, error |-> FALSE,
     error_msg |-> NoMsg, cycles |-> 0, instructions |-> 0]

\* cpu_init: memset to zero, then cpu_reset
m4_cpu_init == m4_cpu_reset([memory |-> EmptyMem])

\* cpu_load_program: nibbles of program stored from start_addr up to MEM_SIZE
RECURSIVE m4_load(_, _, _)
m4_load(mem, program, addr) ==
    IF program = <<>> \/ addr >= M4_MEM_SIZE THEN mem
    ELSE m4_load(Wr(mem, addr, BitAnd(Head(program), M4_NIBBLE_MASK)),
                 Tail(program), addr + 1)

m4_cpu_load_program(c, program, start_addr) ==
    [c EXCEPT !.memory = m4_load(c.memory, program, start_addr)]

m4_cpu_read_mem(c, addr) == BitAnd(Rd(c.memory, addr), M4_NIBBLE_MASK)

\* fetch_byte: two nibbles at pc and pc+1 (pc is a uint8_t), high one first
m4_fetch_value(c) ==
    m4_cpu_read_mem(c, c.pc) * 16 + m4_cpu_read_mem(c, (c.pc + 1) % 256)
m4_fetch_pc(c) == (c.pc + 2) % 256

\* the tail of cpu_step: instructions++ and cycles += cycles
m4_count(c, cycles) ==
    [cpu |-> [c EXCEPT !.instructions = c.instructions + 1,
                       !.cycles = c.cycles + cycles],
     ret |-> cycles]

\* a faulty version in which STA sets Z as LDA does, from the nibble that
\* was in memory
m4_exec_addr_sta_z(c, opcode) ==
    LET addr == m4_fetch_value(c)
        f    == [c EXCEPT !.pc = m4_fetch_pc(c)]
        mdr  == m4_cpu_read_mem(f, addr)
    IN  CASE opcode = M4_OP_LDA ->
               m4_count([f EXCEPT !.mar = addr, !.mdr = mdr, !.a = mdr,
                                  !.z = (mdr = 0)], 5)
          [] opcode = M4_OP_STA ->
               m4_count([f EXCEPT !.mar = addr, !.mdr = f.a, !.z = (mdr = 0),
                           !.memory = Wr(f.memory, addr,
                                         BitAnd(f.a, M4_NIBBLE_MASK))], 5)
          [] opcode = M4_OP_ADD ->
               LET r == BitAnd(f.a + mdr, M4_NIBBLE_MASK)
               IN  m4_count([f EXCEPT !.mar = addr, !.mdr = mdr, !.a = r,
                                      !.z = (r = 0)], 5)
          [] opcode = M4_OP_SUB ->
               LET r == (f.a - mdr) % 16
               IN  m4_count([f EXCEPT !.mar = addr, !.mdr = mdr, !.a = r,
                                      !.z = (r = 0)], 5)
          [] opcode = M4_OP_JMP ->
               m4_count([f EXCEPT !.pc = addr], 4)
          [] opcode = M4_OP_JZ ->
               m4_count([f EXCEPT !.pc = IF f.z THEN addr ELSE f.pc], 5)

\* the instructions that fetch an address byte
m4_exec_addr(c, opcode) ==
    LET addr == m4_fetch_value(c)
        f    == [c EXCEPT !.pc = m4_fetch_pc(c)]
        mdr  == m4_cpu_read_mem(f, addr)
    IN  CASE opcode = M4_OP_LDA ->
               m4_count([f EXCEPT !.mar = addr, !.mdr = mdr, !.a = mdr,
                                  !.z = (mdr = 0)], 5)
          [] opcode = M4_OP_STA ->
               m4_count([f EXCEPT !.mar = addr, !.mdr = f.a,
                           !.memory = Wr(f.memory, addr,
                                         BitAnd(f.a, M4_NIBBLE_MASK))], 5)
          [] opcode = M4_OP_ADD ->
               LET r == BitAnd(f.a + mdr, M4_NIBBLE_MASK)
               IN  m4_count([f EXCEPT !.mar = addr, !.mdr = mdr, !.a = r,
                                      !.z = (r = 0)], 5)
          [] opcode = M4_OP_SUB ->
               LET r == (f.a - mdr) % 16
               IN  m4_count([f EXCEPT !.mar = addr, !.mdr = mdr, !.a = r,
                                      !.z = (r = 0)], 5)
          [] opcode = M4_OP_JMP ->
               m4_count([f EXCEPT !.pc = addr], 4)
          [] opcode = M4_OP_JZ ->
               m4_count([f EXCEPT !.pc = IF f.z THEN addr ELSE f.pc], 5)

\* cpu_step: the structure it leaves and the cycles it returns
m4_cpu_step(c) ==
    IF c.halted THEN [cpu |-> c, ret |-> 0]
    ELSE IF c.pc >= M4_MEM_SIZE - 1 THEN
        [cpu |-> [c EXCEPT !.error = TRUE, !.halted = TRUE,
                           !.error_msg = Msg("PC out of bounds", c.pc, 0)],
         ret |-> 0]
    ELSE
        LET ir      == m4_fetch_value(c)
            f       == [c EXCEPT !.ir = ir, !.pc = m4_fetch_pc(c)]
            opcode  == BitAnd(ir \div 16, M4_NIBBLE_MASK)
            operand == BitAnd(ir, M4_NIBBLE_MASK)
        IN  CASE opcode = M4_OP_HLT ->
                   m4_count([f EXCEPT !.halted = TRUE], 3)
              [] opcode \in {M4_OP_LDA, M4_OP_STA, M4_OP_ADD, M4_OP_SUB,
                             M4_OP_JMP, M4_OP_JZ} ->
                   m4_exec_addr(f, opcode)
              [] opcode = M4_OP_LDI ->
                   m4_count([f EXCEPT !.a = operand, !.z = (operand = 0)], 3)
              [] OTHER ->
                   [cpu |-> [f EXCEPT !.error = TRUE, !.halted = TRUE,
                               !.error_msg =
                                   Msg("Unknown opcode", opcode, f.pc - 2)],
                    ret |-> 2]

\* cpu_run with max_cycles <= 0: the structure when the loop leaves
RECURSIVE m4_cpu_run(_)
m4_cpu_run(c) ==
    IF c.halted THEN c
    ELSE LET s == m4_cpu_step(c)
         IN  IF s.ret = 0 THEN s.cpu ELSE m4_cpu_run(s.cpu)

(***************************************************************************)
(* Micro8 CPU: src/src/micro8/cpu.h, src/src/micro8/cpu.c                  *)
(***************************************************************************)
M8_MEM_SIZE == 65536
M8_DEFAULT_SP == 65535
M8_DEFAULT_PC == 512
M8_INT_VECTOR == 8
M8_FLAG_C == 1
M8_FLAG_O == 4
M8_FLAG_Z == 64
M8_FLAG_S == 128
M8_OP_NOP == 0
M8_OP_HLT == 1
M8_OP_LDI_BASE == 6
M8_OP_LD_BASE == 14
M8_OP_LDZ_BASE == 22
M8_OP_ST_BASE == 30
M8_OP_STZ_BASE == 38
M8_OP_ANDI == 56
M8_OP_ORI == 57
M8_OP_XORI == 58
M8_OP_ADD_BASE == 64
M8_OP_ADC_BASE == 72
M8_OP_SUB_BASE == 80
M8_OP_SBC_BASE == 88
M8_OP_ADDI_BASE == 96
M8_OP_SUBI_BASE == 104
M8_OP_INC_BASE == 112
M8_OP_DEC_BASE == 120
M8_OP_CMP_BASE == 128
M8_OP_CMPI_BASE == 136
M8_OP_NEG == 150
M8_OP_AND_BASE == 160
M8_OP_OR_BASE == 168
M8_OP_XOR_BASE == 176
M8_OP_NOT_BASE == 184
M8_OP_JMP == 192
M8_OP_JR == 193
M8_OP_JRZ == 202
M8_OP_JRNZ == 203
M8_OP_JRC == 204
M8_OP_JRNC == 205
M8_OP_RETI == 209
M8_OP_PUSHF == 230
M8_OP_POPF == 231
M8_OP_EI == 232
M8_OP_DI == 233
M8_OP_SCF == 234
M8_OP_CCF == 235
M8_OP_MOV_RR == 240

\* the opcodes no branch of cpu_step's decode chain takes
M8_UnknownOpcodes ==
    ((M8_OP_HLT + 1) .. (M8_OP_LDI_BASE - 1))
        \cup ((M8_OP_NEG + 1) .. (M8_OP_AND_BASE - 1))
        \cup ((M8_OP_MOV_RR + 1) .. 255)

m8_cpu_reset(c) ==
    [r |-> [i \in 0 .. 7 |-> 0], pc |-> M8_DEFAULT_PC, sp |-> M8_DEFAULT_SP,
     flags |-> 0, ie |-> FALSE, int_pending |-> FALSE, ir |-> 0, mar |-> 0,
     mdr |-> 0, memory |-> c.memory, ports |-> EmptyMem, halted |-> FALSE,
     error |-> FALSE, error_msg |-> NoMsg, cycles |-> 0, instructions |-> 0]

\* cpu_init with the allocation succeeding
m8_cpu_init == m8_cpu_reset([memory |-> EmptyMem])

\* a faulty loop that goes on from address 0 when it reaches MEM_SIZE: C32
\* must reject it
m8_load_wrap(mem, program, addr) ==
    LET at(x) == CHOOSE i \in 1 .. Len(program) :
                    /\ (addr + i - 1) % M8_MEM_SIZE = x
                    /\ \A j \in 1 .. Len(program) :
                          (addr + j - 1) % M8_MEM_SIZE = x => j <= i
        span  == { (addr + i - 1) % M8_MEM_SIZE : i \in 1 .. Len(program) }
    IN  [x \in (DOMAIN mem \ span)
                 \cup {y \in span : program[at(y)] # 0} |->
           IF x \in span THEN program[at(x)] ELSE mem[x]]

\* the copying loop in closed form: the bytes of the program that fit below
\* MEM_SIZE replace the cells from addr on
m8_load(mem, program, addr) ==
    LET n    == IF addr >= M8_MEM_SIZE THEN 0
                ELSE IF addr + Len(program) <= M8_MEM_SIZE THEN Len(program)
                ELSE M8_MEM_SIZE - addr
        span == addr .. addr + n - 1
    IN  [x \in (DOMAIN mem \ span)
                 \cup {y \in span : program[y - addr + 1] # 0} |->
           IF x \in span THEN program[x - addr + 1] ELSE mem[x]]

m8_cpu_load_program(c, program, start_addr) ==
    [c EXCEPT !.memory = m8_load(c.memory, program, start_addr)]

m8_update_flags_zs(flags, result) ==
    PutBits(PutBits(flags, M8_FLAG_Z, result = 0),
            M8_FLAG_S, BitAnd(result, 128) # 0)

\* a faulty update_flags_add that takes Carry from the truncated result
\* having wrapped below a
m8_update_flags_add_wrapped(flags, a, b, result) ==
    LET res8 == result % 256
        zs   == m8_update_flags_zs(flags, res8)
        c    == PutBits(zs, M8_FLAG_C, res8 < a)
    IN  PutBits(c, M8_FLAG_O,
                BitAnd(BitAnd(BitXor(a, res8), BitXor(b, res8)), 128) # 0)

\* a and b are uint8_t parameters, result a uint16_t one
m8_update_flags_add(flags, a, b, result) ==
    LET res8 == result % 256
        zs   == m8_update_flags_zs(flags, res8)
        c    == PutBits(zs, M8_FLAG_C, result > 255)
    IN  PutBits(c, M8_FLAG_O,
                BitAnd(BitAnd(BitXor(a, res8), BitXor(b, res8)), 128) # 0)

m8_update_flags_sub(flags, a, b, result) ==
    LET res8 == result % 256
        zs   == m8_update_flags_zs(flags, res8)
        c    == PutBits(zs, M8_FLAG_C, a < b)
    IN  PutBits(c, M8_FLAG_O,
                BitAnd(BitAnd(BitXor(a, b), BitXor(a, res8)), 128) # 0)

m8_update_flags_logic(flags, result) ==
    ClrBits(ClrBits(m8_update_flags_zs(flags, result), M8_FLAG_C), M8_FLAG_O)

\* cpu_read_mem and cpu_write_mem latch the address and the data
m8_cpu_read_mem(c, addr) ==
    [cpu |-> [c EXCEPT !.mar = addr, !.mdr = Rd(c.memory, addr)],
     v   |-> Rd(c.memory, addr)]

m8_cpu_write_mem(c, addr, value) ==
    [c EXCEPT !.mar = addr, !.mdr = value,
              !.memory = Wr(c.memory, addr, value)]

m8_fetch_byte(c) ==
    LET rd == m8_cpu_read_mem(c, c.pc)
    IN  [cpu |-> [rd.cpu EXCEPT !.pc = (c.pc + 1) % 65536], v |-> rd.v]

m8_fetch_word(c) ==
    LET low  == m8_fetch_byte(c)
        high == m8_fetch_byte(low.cpu)
    IN  [cpu |-> high.cpu, v |-> low.v + 256 * high.v]

m8_push_byte(c, value) ==
    [m8_cpu_write_mem(c, c.sp, value) EXCEPT !.sp = (c.sp - 1) % 65536]

m8_pop_byte(c) ==
    LET sp == (c.sp + 1) % 65536
    IN  m8_cpu_read_mem([c EXCEPT !.sp = sp], sp)

m8_push_word(c, value) ==
    m8_push_byte(m8_push_byte(c, value \div 256), value % 256)

\* a faulty pop_word that takes the high byte first: C39 must reject it
m8_pop_word_be(c) ==
    LET high == m8_pop_byte(c)
        low  == m8_pop_byte(high.cpu)
    IN  [cpu |-> low.cpu, v |-> low.v + 256 * high.v]

m8_pop_word(c) ==
    LET low  == m8_pop_byte(c)
        high == m8_pop_byte(low.cpu)
    IN  [cpu |-> high.cpu, v |-> low.v + 256 * high.v]

m8_cpu_request_interrupt(c) == [c EXCEPT !.int_pending = TRUE]

\* a faulty handle_interrupt that does not look at ie: the gating of C4
\* must reject it
m8_handle_interrupt_unmasked(c) ==
    IF c.int_pending THEN
        [m8_push_byte(m8_push_word([c EXCEPT !.int_pending = FALSE,
                                             !.ie = FALSE], c.pc), c.flags)
           EXCEPT !.pc = M8_INT_VECTOR]
    ELSE c

\* a faulty handle_interrupt that leaves the request pending: C38 must
\* reject it
m8_handle_interrupt_again(c) ==
    IF c.ie /\ c.int_pending THEN
        [m8_push_byte(m8_push_word([c EXCEPT !.ie = FALSE], c.pc), c.flags)
           EXCEPT !.pc = M8_INT_VECTOR]
    ELSE c

m8_handle_interrupt(c) ==
    IF c.ie /\ c.int_pending THEN
        LET d  == [c EXCEPT !.int_pending = FALSE, !.ie = FALSE]
            pw == m8_push_word(d, d.pc)
            pf == m8_push_byte(pw, pw.flags)
        IN  [pf EXCEPT !.pc = M8_INT_VECTOR]
    ELSE c

m8_count(c, cycles) ==
    [c EXCEPT !.instructions = c.instructions + 1,
              !.cycles = c.cycles + cycles]

\* ADD, ADC, SUB, SBC, CMP: R0 and the register the opcode's low bits name
m8_exec_alu_rr(c, opcode) ==
    LET src   == BitAnd(opcode, 7)
        a     == c.r[0]
        b     == c.r[src]
        carry == IF HasBits(c.flags, M8_FLAG_C) THEN 1 ELSE 0
        base  == opcode - src
    IN  CASE base = M8_OP_ADD_BASE ->
               LET result16 == a + b
               IN  [c EXCEPT !.flags = m8_update_flags_add(@, a, b, result16),
                             !.r[0] = result16 % 256]
          [] base = M8_OP_ADC_BASE ->
               LET result16 == a + b + carry
               IN  [c EXCEPT !.flags = m8_update_flags_add(
                                           @, a, (b + carry) % 256, result16),
                             !.r[0] = result16 % 256]
          [] base = M8_OP_SUB_BASE ->
               LET result16 == (a - b) % 65536
               IN  [c EXCEPT !.flags = m8_update_flags_sub(@, a, b, result16),
                             !.r[0] = result16 % 256]
          [] base = M8_OP_SBC_BASE ->
               LET result16 == (a - b - carry) % 65536
               IN  [c EXCEPT !.flags = m8_update_flags_sub(
                                           @, a, (b + carry) % 256, result16),
                             !.r[0] = result16 % 256]
          [] base = M8_OP_CMP_BASE ->
               LET result16 == (a - b) % 65536
               IN  [c EXCEPT !.flags = m8_update_flags_sub(@, a, b, result16)]

\* ADDI, SUBI, CMPI: the register the opcode names and an immediate byte
m8_exec_alu_ri(c, opcode) ==
    LET reg  == BitAnd(opcode, 7)
        f    == m8_fetch_byte(c)
        a    == c.r[reg]
        imm8 == f.v
        base == opcode - reg
    IN  CASE base = M8_OP_ADDI_BASE ->
               LET result16 == a + imm8
               IN  [f.cpu EXCEPT
                      !.flags = m8_update_flags_add(@, a, imm8, result16),
                      !.r[reg] = result16 % 256]
          [] base = M8_OP_SUBI_BASE ->
               LET result16 == (a - imm8) % 65536
               IN  [f.cpu EXCEPT
                      !.flags = m8_update_flags_sub(@, a, imm8, result16),
                      !.r[reg] = result16 % 256]
          [] base = M8_OP_CMPI_BASE ->
               LET result16 == (a - imm8) % 65536
               IN  [f.cpu EXCEPT
                      !.flags = m8_update_flags_sub(@, a, imm8, result16)]

m8_in(opcode, base) == opcode >= base /\ opcode <= base + 7

\* AND, OR, XOR on R0 and the register the opcode names, NOT on the
\* register the opcode names
m8_logic_store(c, reg, result) ==
    [c EXCEPT !.r[reg] = result,
              !.flags = m8_update_flags_logic(@, result)]

m8_exec_logic_rr(c, opcode) ==
    CASE m8_in(opcode, M8_OP_AND_BASE) ->
           m8_logic_store(c, 0, BitAnd(c.r[0], c.r[BitAnd(opcode, 7)]))
      [] m8_in(opcode, M8_OP_OR_BASE) ->
           m8_logic_store(c, 0, BitOr(c.r[0], c.r[BitAnd(opcode, 7)]))
      [] m8_in(opcode, M8_OP_XOR_BASE) ->
           m8_logic_store(c, 0, BitXor(c.r[0], c.r[BitAnd(opcode, 7)]))
      [] m8_in(opcode, M8_OP_NOT_BASE) ->
           m8_logic_store(c, BitAnd(opcode, 7), 255 - c.r[BitAnd(opcode, 7)])

\* ANDI, ORI, XORI: a register byte, then an immediate byte
m8_logic_imm(x, opcode, reg, imm8) ==
    CASE opcode = M8_OP_ANDI -> m8_logic_store(x, reg, BitAnd(x.r[reg], imm8))
      [] opcode = M8_OP_ORI -> m8_logic_store(x, reg, BitOr(x.r[reg], imm8))
      [] opcode = M8_OP_XORI -> m8_logic_store(x, reg, BitXor(x.r[reg], imm8))

m8_logic_fetch_imm(reg, fi, opcode) == m8_logic_imm(fi.cpu, opcode, reg, fi.v)

m8_logic_fetch_reg(fr, opcode) ==
    m8_logic_fetch_imm(BitAnd(fr.v, 7), m8_fetch_byte(fr.cpu), opcode)

m8_exec_logic_ri(c, opcode) == m8_logic_fetch_reg(m8_fetch_byte(c), opcode)

\* a faulty INC and DEC that go through the flag rules of ADD and SUB,
\* Carry included
m8_exec_incdec_carry(c, opcode) ==
    IF m8_in(opcode, M8_OP_INC_BASE)
    THEN [c EXCEPT !.r[BitAnd(opcode, 7)] = (@ + 1) % 256,
                   !.flags = m8_update_flags_add(
                                 @, c.r[BitAnd(opcode, 7)], 1,
                                 c.r[BitAnd(opcode, 7)] + 1)]
    ELSE [c EXCEPT !.r[BitAnd(opcode, 7)] = (@ - 1) % 256,
                   !.flags = m8_update_flags_sub(
                                 @, c.r[BitAnd(opcode, 7)], 1,
                                 (c.r[BitAnd(opcode, 7)] - 1) % 65536)]

\* INC and DEC: Z and S from the new value, O when the old value was 0x7F
\* (INC) or 0x80 (DEC), Carry untouched
m8_exec_incdec(c, opcode) ==
    IF m8_in(opcode, M8_OP_INC_BASE)
    THEN [c EXCEPT !.r[BitAnd(opcode, 7)] = (@ + 1) % 256,
                   !.flags = PutBits(
                       m8_update_flags_zs(@, (c.r[BitAnd(opcode, 7)] + 1) % 256),
                       M8_FLAG_O, c.r[BitAnd(opcode, 7)] = 127)]
    ELSE [c EXCEPT !.r[BitAnd(opcode, 7)] = (@ - 1) % 256,
                   !.flags = PutBits(
                       m8_update_flags_zs(@, (c.r[BitAnd(opcode, 7)] - 1) % 256),
                       M8_FLAG_O, c.r[BitAnd(opcode, 7)] = 128)]

\* LD Rd,[addr16] / LDZ Rd,[zp] / ST Rd,[addr16] / STZ Rd,[zp]
m8_load_reg(rd, reg) == [rd.cpu EXCEPT !.r[reg] = rd.v]

m8_exec_ld(fa, reg) == m8_load_reg(m8_cpu_read_mem(fa.cpu, fa.v), reg)

m8_exec_st(fa, reg) == m8_cpu_write_mem(fa.cpu, fa.v, fa.cpu.r[reg])

\* MOV Rd,Rs: operand = (rd << 4) | rs
m8_exec_mov(fo) ==
    [fo.cpu EXCEPT !.r[BitAnd(fo.v \div 16, 7)] = fo.cpu.r[BitAnd(fo.v, 7)]]

\* (int8_t)offset added to the uint16_t pc
m8_int8(v) == IF v >= 128 THEN v - 256 ELSE v

\* JR, JRZ, JRNZ, JRC, JRNC: pc += offset once the offset byte is fetched
m8_jump_rel(fo, taken) ==
    IF taken THEN [fo.cpu EXCEPT !.pc = (@ + m8_int8(fo.v)) % 65536]
    ELSE fo.cpu

m8_rel_taken(c, opcode) ==
    CASE opcode = M8_OP_JR -> TRUE
      [] opcode = M8_OP_JRZ -> HasBits(c.flags, M8_FLAG_Z)
      [] opcode = M8_OP_JRNZ -> ~HasBits(c.flags, M8_FLAG_Z)
      [] opcode = M8_OP_JRC -> HasBits(c.flags, M8_FLAG_C)
      [] opcode = M8_OP_JRNC -> ~HasBits(c.flags, M8_FLAG_C)

\* cpu_step: the structure after the interrupt check (mid), the structure
\* it leaves (cpu) and the cycles it returns (ret)
m8_cpu_step(c) ==
    IF c.halted THEN [cpu |-> c, mid |-> c, ret |-> 0]
    ELSE
        LET m      == m8_handle_interrupt(c)
            fi     == m8_fetch_byte(m)
            f      == [fi.cpu EXCEPT !.ir = fi.v]
            opcode == fi.v
            done(x, cycles) ==
                [cpu |-> m8_count(x, cycles), mid |-> m, ret |-> cycles]
        IN  CASE opcode = M8_OP_NOP -> done(f, 2)
              [] opcode = M8_OP_HLT -> done([f EXCEPT !.halted = TRUE], 2)
              [] m8_in(opcode, M8_OP_LDI_BASE) ->
                   LET imm == m8_fetch_byte(f)
                   IN  done([imm.cpu EXCEPT
                               !.r[opcode - M8_OP_LDI_BASE] = imm.v], 3)
              [] \/ m8_in(opcode, M8_OP_ADD_BASE)
                 \/ m8_in(opcode, M8_OP_ADC_BASE)
                 \/ m8_in(opcode, M8_OP_SUB_BASE)
                 \/ m8_in(opcode, M8_OP_SBC_BASE)
                 \/ m8_in(opcode, M8_OP_CMP_BASE) ->
                   done(m8_exec_alu_rr(f, opcode), 2)
              [] \/ m8_in(opcode, M8_OP_ADDI_BASE)
                 \/ m8_in(opcode, M8_OP_SUBI_BASE)
                 \/ m8_in(opcode, M8_OP_CMPI_BASE) ->
                   done(m8_exec_alu_ri(f, opcode), 3)
              [] m8_in(opcode, M8_OP_LD_BASE) ->
                   done(m8_exec_ld(m8_fetch_word(f), opcode - M8_OP_LD_BASE), 5)
              [] m8_in(opcode, M8_OP_LDZ_BASE) ->
                   done(m8_exec_ld(m8_fetch_byte(f), opcode - M8_OP_LDZ_BASE), 4)
              [] m8_in(opcode, M8_OP_ST_BASE) ->
                   done(m8_exec_st(m8_fetch_word(f), opcode - M8_OP_ST_BASE), 5)
              [] m8_in(opcode, M8_OP_STZ_BASE) ->
                   done(m8_exec_st(m8_fetch_byte(f), opcode - M8_OP_STZ_BASE), 4)
              [] opcode \in {M8_OP_ANDI, M8_OP_ORI, M8_OP_XORI} ->
                   done(m8_exec_logic_ri(f, opcode), 4)
              [] \/ m8_in(opcode, M8_OP_INC_BASE)
                 \/ m8_in(opcode, M8_OP_DEC_BASE) ->
                   done(m8_exec_incdec(f, opcode), 2)
              [] \/ m8_in(opcode, M8_OP_AND_BASE)
                 \/ m8_in(opcode, M8_OP_OR_BASE)
                 \/ m8_in(opcode, M8_OP_XOR_BASE)
                 \/ m8_in(opcode, M8_OP_NOT_BASE) ->
                   done(m8_exec_logic_rr(f, opcode), 2)
              [] opcode = M8_OP_JMP ->
                   LET w == m8_fetch_word(f)
                   IN  done([w.cpu EXCEPT !.pc = w.v], 4)
              [] opcode \in {M8_OP_JR, M8_OP_JRZ, M8_OP_JRNZ, M8_OP_JRC,
                             M8_OP_JRNC} ->
                   done(m8_jump_rel(m8_fetch_byte(f), m8_rel_taken(f, opcode)),
                        3)
              [] opcode = M8_OP_MOV_RR -> done(m8_exec_mov(m8_fetch_byte(f)), 3)
              [] opcode = M8_OP_RETI ->
                   LET fl == m8_pop_byte(f)
                       pw == m8_pop_word([fl.cpu EXCEPT !.flags = fl.v])
                   IN  done([pw.cpu EXCEPT !.pc = pw.v, !.ie = TRUE], 6)
              [] opcode = M8_OP_PUSHF -> done(m8_push_byte(f, f.flags), 3)
              [] opcode = M8_OP_POPF ->
                   LET fl == m8_pop_byte(f)
                   IN  done([fl.cpu EXCEPT !.flags = fl.v], 3)
              [] opcode = M8_OP_EI -> done([f EXCEPT !.ie = TRUE], 2)
              [] opcode = M8_OP_DI -> done([f EXCEPT !.ie = FALSE], 2)
              [] opcode = M8_OP_SCF ->
                   done([f EXCEPT !.flags = SetBits(@, M8_FLAG_C)], 2)
              [] opcode = M8_OP_CCF ->
                   done([f EXCEPT !.flags = ClrBits(@, M8_FLAG_C)], 2)
              [] opcode \in M8_UnknownOpcodes ->
                   [cpu |-> [f EXCEPT !.error = TRUE, !.halted = TRUE,
                               !.error_msg =
                                   Msg("Unknown opcode", opcode, f.pc - 1)],
                    mid |-> m, ret |-> 1]

(***************************************************************************)
(* Micro16 CPU: src/src/micro16/cpu.h, src/src/micro16/cpu.c               *)
(***************************************************************************)
M16_MEM_SIZE == 1048576
M16_DEFAULT_CS == 0
M16_DEFAULT_DS == 0
M16_DEFAULT_SS == 3840
M16_DEFAULT_ES == 0
M16_DEFAULT_SP == 65534
M16_DEFAULT_PC == 256
M16_IVT_BASE == 0
M16_MMIO_BASE == 983040
M16_MMIO_SIZE == 65536
M16_REG_R0 == 0
M16_REG_R2 == 2
M16_REG_R3 == 3
M16_REG_R4 == 4
M16_REG_R5 == 5
M16_SEG_CS == 0
M16_SEG_DS == 1
M16_SEG_SS == 2
M16_SEG_ES == 3
M16_FLAG_C == 1
M16_FLAG_Z == 2
M16_FLAG_S == 4
M16_FLAG_O == 8
M16_FLAG_D == 16
M16_FLAG_I == 32
M16_FLAG_T == 64
M16_FLAG_P == 128
M16_OP_NOP == 0
M16_OP_HLT == 1
M16_OP_WAIT == 2
M16_OP_INT == 4
M16_OP_IRET == 5
M16_OP_CLI == 6
M16_OP_STI == 7
M16_OP_CLC == 8
M16_OP_STC == 9
M16_OP_PUSHF == 13
M16_OP_POPF == 14
M16_OP_MOV_RR == 16
M16_OP_MOV_RI == 17
M16_OP_MOV_SR == 19
M16_OP_MOV_RS == 20
M16_OP_MOV_R_SP == 21
M16_OP_MOV_SP_R == 22
M16_OP_ADD_SP_I == 23
M16_OP_SUB_SP_I == 24
M16_OP_LD == 32
M16_OP_ST == 33
M16_OP_LD_IDX == 36
M16_OP_LEA == 38
M16_OP_LD_IDX_SP == 41
M16_OP_LES == 40
M16_OP_PUSH_R == 64
M16_OP_LEAVE == 71
M16_OP_ADD_RR == 80
M16_OP_ADD_RI == 81
M16_OP_ADC_RR == 82
M16_OP_ADC_RI == 83
M16_OP_SUB_RR == 84
M16_OP_SUB_RI == 85
M16_OP_SBC_RR == 86
M16_OP_SBC_RI == 87
M16_OP_CMP_RR == 88
M16_OP_CMP_RI == 89
M16_OP_INC == 91
M16_OP_DEC == 92
M16_OP_MUL == 96
M16_OP_DIV == 98
M16_OP_IDIV == 99
M16_OP_AND_RR == 112
M16_OP_AND_RI == 113
M16_OP_OR_RR == 114
M16_OP_OR_RI == 115
M16_OP_XOR_RR == 116
M16_OP_XOR_RI == 117
M16_OP_NOT == 118
M16_OP_TEST_RR == 119
M16_OP_TEST_RI == 120
M16_OP_SHL == 128
M16_OP_RCR == 134
M16_OP_JMP == 160
M16_OP_JR == 163
M16_OP_JZ == 176
M16_OP_JBE == 189
M16_OP_CALL == 192
M16_OP_RET_I == 197
M16_OP_LOOP == 208
M16_OP_LOOPNZ == 210
M16_OP_MOVSB == 224
M16_OP_MOVSW == 225
M16_OP_STOSB == 228
M16_OP_STOSW == 229
M16_OP_LODSB == 230
M16_OP_LODSW == 231
M16_OP_REP == 232
M16_OP_REPNZ == 234
M16_OP_IN == 240
M16_OP_OUT == 241
M16_OP_INB == 242
M16_OP_OUTB == 243

\* the opcodes that have a case in cpu_step's switch
M16_KnownOpcodes ==
    (M16_OP_NOP .. M16_OP_WAIT) \cup (M16_OP_INT .. M16_OP_POPF)
        \cup (M16_OP_MOV_RR .. M16_OP_MOV_RS) \cup (M16_OP_LD .. M16_OP_LES)
        \cup (M16_OP_PUSH_R .. M16_OP_LEAVE) \cup (M16_OP_ADD_RR .. M16_OP_DEC)
        \cup (M16_OP_MUL .. M16_OP_IDIV) \cup (M16_OP_AND_RR .. M16_OP_TEST_RI)
        \cup (M16_OP_SHL .. M16_OP_RCR) \cup (M16_OP_JMP .. M16_OP_JR)
        \cup (M16_OP_JZ .. M16_OP_JBE) \cup (M16_OP_CALL .. M16_OP_RET_I)
        \cup (M16_OP_LOOP .. M16_OP_LOOPNZ) \cup (M16_OP_MOVSB .. M16_OP_REPNZ)
        \cup (M16_OP_IN .. M16_OP_OUTB)

\* the string operations a REP prefix repeats
M16_RepOpcodes ==
    {M16_OP_MOVSB, M16_OP_MOVSW, M16_OP_STOSB, M16_OP_STOSW, M16_OP_LODSB,
     M16_OP_LODSW}

\* a faulty cpu_reset that also clears the memory: C31 must reject it
m16_cpu_reset_clear(c) ==
    [r |-> [i \in 0 .. 7 |-> 0],
     seg |-> [i \in 0 .. 3 |->
                CASE i = M16_SEG_CS -> M16_DEFAULT_CS
                  [] i = M16_SEG_DS -> M16_DEFAULT_DS
                  [] i = M16_SEG_SS -> M16_DEFAULT_SS
                  [] i = M16_SEG_ES -> M16_DEFAULT_ES],
     pc |-> M16_DEFAULT_PC, sp |-> M16_DEFAULT_SP, flags |-> 0,
     int_pending |-> FALSE, int_vector |-> 0, ir |-> 0, mar |-> 0, mdr |-> 0,
     memory |-> EmptyMem, halted |-> FALSE, waiting |-> FALSE,
     error |-> FALSE, error_msg |-> NoMsg, cycles |-> 0, instructions |-> 0]

m16_cpu_reset(c) ==
    [r |-> [i \in 0 .. 7 |-> 0],
     seg |-> [i \in 0 .. 3 |->
                CASE i = M16_SEG_CS -> M16_DEFAULT_CS
                  [] i = M16_SEG_DS -> M16_DEFAULT_DS
                  [] i = M16_SEG_SS -> M16_DEFAULT_SS
                  [] i = M16_SEG_ES -> M16_DEFAULT_ES],
     pc |-> M16_DEFAULT_PC, sp |-> M16_DEFAULT_SP, flags |-> 0,
     int_pending |-> FALSE, int_vector |-> 0, ir |-> 0, mar |-> 0, mdr |-> 0,
     memory |-> c.memory, halted |-> FALSE, waiting |-> FALSE,
     error |-> FALSE, error_msg |-> NoMsg, cycles |-> 0, instructions |-> 0]

\* cpu_init with the allocation succeeding
m16_cpu_init == m16_cpu_reset([memory |-> EmptyMem])

\* the copying loop in closed form: the bytes of the program that fit below
\* MEM_SIZE replace the cells from addr on
m16_load(mem, program, addr) ==
    LET n    == IF addr >= M16_MEM_SIZE THEN 0
                ELSE IF addr + Len(program) <= M16_MEM_SIZE THEN Len(program)
                ELSE M16_MEM_SIZE - addr
        span == addr .. addr + n - 1
    IN  [x \in (DOMAIN mem \ span)
                 \cup {y \in span : program[y - addr + 1] # 0} |->
           IF x \in span THEN program[x - addr + 1] ELSE mem[x]]

m16_cpu_load_program(c, program, phys_addr) ==
    [c EXCEPT !.memory = m16_load(c.memory, program, phys_addr)]

m16_cpu_get_flag(c, flag) == HasBits(c.flags, flag)

m16_update_flags_zs(flags, result) ==
    PutBits(PutBits(flags, M16_FLAG_Z, result = 0),
            M16_FLAG_S, BitAnd(result, 32768) # 0)

RECURSIVE m16_bits(_)
m16_bits(low) == IF low = 0 THEN 0 ELSE (low % 2) + m16_bits(low \div 2)

m16_update_flag_p(flags, result) ==
    PutBits(flags, M16_FLAG_P, m16_bits(BitAnd(result, 255)) % 2 = 0)

\* a and b are uint16_t parameters, result a uint32_t one
m16_update_flags_add16(flags, a, b, result) ==
    LET res16 == result % 65536
        zsp   == m16_update_flag_p(m16_update_flags_zs(flags, res16), res16)
        c     == PutBits(zsp, M16_FLAG_C, result > 65535)
    IN  PutBits(c, M16_FLAG_O,
                BitAnd(BitAnd(BitXor(a, res16), BitXor(b, res16)), 32768) # 0)

\* a faulty update_flags_sub16 whose borrow test is a <= b
m16_update_flags_sub16_le(flags, a, b, result) ==
    LET res16 == result % 65536
        zsp   == m16_update_flag_p(m16_update_flags_zs(flags, res16), res16)
        c     == PutBits(zsp, M16_FLAG_C, a <= b)
    IN  PutBits(c, M16_FLAG_O,
                BitAnd(BitAnd(BitXor(a, b), BitXor(a, res16)), 32768) # 0)

m16_update_flags_sub16(flags, a, b, result) ==
    LET res16 == result % 65536
        zsp   == m16_update_flag_p(m16_update_flags_zs(flags, res16), res16)
        c     == PutBits(zsp, M16_FLAG_C, a < b)
    IN  PutBits(c, M16_FLAG_O,
                BitAnd(BitAnd(BitXor(a, b), BitXor(a, res16)), 32768) # 0)

\* a faulty update_flags_logic that leaves Carry and Overflow as they were
m16_update_flags_logic_keep(flags, result) ==
    m16_update_flag_p(m16_update_flags_zs(flags, result), result)

m16_update_flags_logic(flags, result) ==
    ClrBits(ClrBits(m16_update_flag_p(m16_update_flags_zs(flags, result),
                                      result),
                    M16_FLAG_C), M16_FLAG_O)

\* an address past the physical memory sets error, reads 0, writes nothing
m16_cpu_read_phys_byte(c, addr) ==
    IF addr >= M16_MEM_SIZE THEN
        [cpu |-> [c EXCEPT !.error = TRUE,
                    !.error_msg = Msg("Physical address out of range", addr, 0)],
         v |-> 0]
    ELSE [cpu |-> [c EXCEPT !.mar = addr, !.mdr = Rd(c.memory, addr)],
          v |-> Rd(c.memory, addr)]

m16_cpu_read_phys_word(c, addr) ==
    LET low  == m16_cpu_read_phys_byte(c, addr)
        high == m16_cpu_read_phys_byte(low.cpu, addr + 1)
    IN  [cpu |-> high.cpu, v |-> low.v + 256 * high.v]

m16_cpu_write_phys_byte(c, addr, value) ==
    IF addr >= M16_MEM_SIZE THEN
        [c EXCEPT !.error = TRUE,
                  !.error_msg = Msg("Physical address out of range", addr, 0)]
    ELSE [c EXCEPT !.mar = addr, !.mdr = value,
                   !.memory = Wr(c.memory, addr, value)]

m16_cpu_write_phys_word(c, addr, value) ==
    m16_cpu_write_phys_byte(m16_cpu_write_phys_byte(c, addr, value % 256),
                            addr + 1, value \div 256)

seg_offset_to_phys(segment, offset) == segment * 16 + offset

m16_cpu_read_byte(c, segment, offset) ==
    m16_cpu_read_phys_byte(c, seg_offset_to_phys(segment, offset))
m16_cpu_read_word(c, segment, offset) ==
    m16_cpu_read_phys_word(c, seg_offset_to_phys(segment, offset))
m16_cpu_write_byte(c, segment, offset, value) ==
    m16_cpu_write_phys_byte(c, seg_offset_to_phys(segment, offset), value)
m16_cpu_write_word(c, segment, offset, value) ==
    m16_cpu_write_phys_word(c, seg_offset_to_phys(segment, offset), value)

m16_fetch_byte(c) ==
    LET rd == m16_cpu_read_byte(c, c.seg[M16_SEG_CS], c.pc)
    IN  [cpu |-> [rd.cpu EXCEPT !.pc = (c.pc + 1) % 65536], v |-> rd.v]

m16_fetch_word(c) ==
    LET low  == m16_fetch_byte(c)
        high == m16_fetch_byte(low.cpu)
    IN  [cpu |-> high.cpu, v |-> low.v + 256 * high.v]

m16_push_word(c, value) ==
    LET sp == (c.sp - 2) % 65536
    IN  m16_cpu_write_word([c EXCEPT !.sp = sp], c.seg[M16_SEG_SS], sp, value)

m16_pop_word(c) ==
    LET rd == m16_cpu_read_word(c, c.seg[M16_SEG_SS], c.sp)
    IN  [cpu |-> [rd.cpu EXCEPT !.sp = (c.sp + 2) % 65536], v |-> rd.v]

m16_cpu_request_interrupt(c, vector) ==
    [c EXCEPT !.int_pending = TRUE, !.int_vector = vector]

\* flags, CS and PC are pushed, then I and T are cleared and the vector's
\* table entry is read
m16_load_vector(new_pc, new_cs) ==
    [new_cs.cpu EXCEPT !.pc = new_pc.v, !.seg[M16_SEG_CS] = new_cs.v]

m16_read_vector(new_pc, ivt_entry) ==
    m16_load_vector(new_pc, m16_cpu_read_phys_word(new_pc.cpu, ivt_entry + 2))

m16_enter_vector(p, ivt_entry) ==
    m16_read_vector(
        m16_cpu_read_phys_word(
            [p EXCEPT !.flags = ClrBits(ClrBits(@, M16_FLAG_I), M16_FLAG_T)],
            ivt_entry),
        ivt_entry)

\* a faulty dispatch whose table entries are two bytes apart: C27 must
\* reject it
m16_push_pc_stride(p, vector) ==
    m16_enter_vector(m16_push_word(p, p.pc), M16_IVT_BASE + vector * 2)

m16_push_pc(p, vector) ==
    m16_enter_vector(m16_push_word(p, p.pc), M16_IVT_BASE + vector * 4)

m16_push_cs(p, vector) ==
    m16_push_pc(m16_push_word(p, p.seg[M16_SEG_CS]), vector)

\* a faulty handle_interrupt that clears I and T before it pushes the
\* flags: the pushed values of C3 must reject it
m16_handle_interrupt_masked(c, vector) ==
    m16_push_cs(
        m16_push_word(c, ClrBits(ClrBits(c.flags, M16_FLAG_I), M16_FLAG_T)),
        vector)

m16_handle_interrupt(c, vector) ==
    m16_push_cs(m16_push_word(c, c.flags), vector)

m16_check_interrupt(c) ==
    IF c.int_pending /\ m16_cpu_get_flag(c, M16_FLAG_I)
    THEN m16_handle_interrupt([c EXCEPT !.int_pending = FALSE], c.int_vector)
    ELSE c

\* what the switch of cpu_step leaves: the structure, the cycles so far and
\* whether control reaches the counters after the switch
m16_res(c, cycles) == [cpu |-> c, cycles |-> cycles, counted |-> TRUE]

\* ADD, ADC, SUB, SBC, CMP on two registers or on a register and an
\* immediate word.  result32 is a uint32_t of which the code uses the low
\* 16 bits and, for the additions, the comparison with 0xFFFF: the
\* subtractions are kept modulo 2^16, which loses neither.
m16_alu_add(x, reg, a, b, result32, cycles) ==
    m16_res([x EXCEPT !.flags = m16_update_flags_add16(@, a, b, result32),
                      !.r[reg] = result32 % 65536], cycles)

m16_alu_sub(x, reg, a, b, result32, store, cycles) ==
    m16_res([x EXCEPT !.flags = m16_update_flags_sub16(@, a, b, result32),
                      !.r[reg] = IF store THEN result32 % 65536 ELSE @],
            cycles)

\* the arithmetic of one case, on the operands a = R[reg] and b
m16_alu_op(x, opcode, reg, b, cycles) ==
    CASE opcode \in {M16_OP_ADD_RR, M16_OP_ADD_RI} ->
           m16_alu_add(x, reg, x.r[reg], b, x.r[reg] + b, cycles)
      [] opcode \in {M16_OP_ADC_RR, M16_OP_ADC_RI} ->
           m16_alu_add(x, reg, x.r[reg], b,
               x.r[reg] + b + (IF m16_cpu_get_flag(x, M16_FLAG_C) THEN 1 ELSE 0),
               cycles)
      [] opcode \in {M16_OP_SUB_RR, M16_OP_SUB_RI} ->
           m16_alu_sub(x, reg, x.r[reg], b, (x.r[reg] - b) % 65536, TRUE,
                       cycles)
      [] opcode \in {M16_OP_SBC_RR, M16_OP_SBC_RI} ->
           m16_alu_sub(x, reg, x.r[reg], b,
               (x.r[reg] - b
                  - (IF m16_cpu_get_flag(x, M16_FLAG_C) THEN 1 ELSE 0)) % 65536,
               TRUE, cycles)
      [] opcode \in {M16_OP_CMP_RR, M16_OP_CMP_RI} ->
           m16_alu_sub(x, reg, x.r[reg], b, (x.r[reg] - b) % 65536, FALSE,
                       cycles)

\* the operand fetch: regs = (rd << 4) | rs, or the register then the word
m16_alu_ri(reg, fw, opcode) == m16_alu_op(fw.cpu, opcode, reg, fw.v, 4)

m16_alu_operands(fb, opcode) ==
    IF opcode \in {M16_OP_ADD_RR, M16_OP_ADC_RR, M16_OP_SUB_RR, M16_OP_SBC_RR,
                   M16_OP_CMP_RR}
    THEN m16_alu_op(fb.cpu, opcode, BitAnd(fb.v \div 16, 7),
                    fb.cpu.r[BitAnd(fb.v, 7)], 3)
    ELSE m16_alu_ri(BitAnd(fb.v, 7), m16_fetch_word(fb.cpu), opcode)

m16_exec_alu(c, opcode) == m16_alu_operands(m16_fetch_byte(c), opcode)

\* AND, OR, XOR, TEST on two registers or on a register and an immediate
\* word: TEST stores nothing
m16_logic_store(x, reg, result, cycles) ==
    m16_res([x EXCEPT !.r[reg] = result,
                      !.flags = m16_update_flags_logic(@, result)], cycles)

m16_logic_op(x, opcode, reg, b, cycles) ==
    CASE opcode \in {M16_OP_AND_RR, M16_OP_AND_RI} ->
           m16_logic_store(x, reg, BitAnd(x.r[reg], b), cycles)
      [] opcode \in {M16_OP_OR_RR, M16_OP_OR_RI} ->
           m16_logic_store(x, reg, BitOr(x.r[reg], b), cycles)
      [] opcode \in {M16_OP_XOR_RR, M16_OP_XOR_RI} ->
           m16_logic_store(x, reg, BitXor(x.r[reg], b), cycles)
      [] opcode \in {M16_OP_TEST_RR, M16_OP_TEST_RI} ->
           m16_res([x EXCEPT !.flags = m16_update_flags_logic(
                                           @, BitAnd(x.r[reg], b))], cycles)

m16_logic_ri(reg, fw, opcode) == m16_logic_op(fw.cpu, opcode, reg, fw.v, 4)

m16_logic_operands(fb, opcode) ==
    IF opcode \in {M16_OP_AND_RR, M16_OP_OR_RR, M16_OP_XOR_RR, M16_OP_TEST_RR}
    THEN m16_logic_op(fb.cpu, opcode, BitAnd(fb.v \div 16, 7),
                      fb.cpu.r[BitAnd(fb.v, 7)], 3)
    ELSE m16_logic_ri(BitAnd(fb.v, 7), m16_fetch_word(fb.cpu), opcode)

m16_exec_logic(c, opcode) == m16_logic_operands(m16_fetch_byte(c), opcode)

\* NOT: the register is complemented, no flag is touched
m16_not(fb) ==
    m16_res([fb.cpu EXCEPT !.r[BitAnd(fb.v, 7)] = 65535 - @], 3)

\* INC and DEC: the flags of ADD and SUB of 1, then Carry as it was
m16_incdec(x, reg, opcode) ==
    IF opcode = M16_OP_INC
    THEN m16_res([x EXCEPT
                    !.flags = PutBits(
                        m16_update_flags_add16(@, x.r[reg], 1, x.r[reg] + 1),
                        M16_FLAG_C, m16_cpu_get_flag(x, M16_FLAG_C)),
                    !.r[reg] = (@ + 1) % 65536], 2)
    ELSE m16_res([x EXCEPT
                    !.flags = PutBits(
                        m16_update_flags_sub16(@, x.r[reg], 1,
                                               (x.r[reg] - 1) % 65536),
                        M16_FLAG_C, m16_cpu_get_flag(x, M16_FLAG_C)),
                    !.r[reg] = (@ - 1) % 65536], 2)

m16_exec_incdec(fb, opcode) == m16_incdec(fb.cpu, BitAnd(fb.v, 7), opcode)

\* LD Rd,[addr] and ST [addr],Rs: a word at DS:addr
m16_ld_store(rd, reg) == m16_res([rd.cpu EXCEPT !.r[reg] = rd.v], 5)

m16_ld_read(reg, fw) ==
    m16_ld_store(m16_cpu_read_word(fw.cpu, fw.cpu.seg[M16_SEG_DS], fw.v), reg)

m16_exec_ld(fb) == m16_ld_read(BitAnd(fb.v, 7), m16_fetch_word(fb.cpu))

\* LD Rd,[Rs + offset]: Rd in the high nibble of the register byte, the
\* base in the low one, eff_addr a uint16_t
m16_exec_ld_idx(fb, fw) ==
    LET eff_addr == (fw.cpu.r[BitAnd(fb.v, 7)] + fw.v) % 65536
        rd == m16_cpu_read_word(fw.cpu, fw.cpu.seg[M16_SEG_DS], eff_addr)
    IN  m16_res([rd.cpu EXCEPT !.r[BitAnd(fb.v \div 16, 7)] = rd.v], 6)

\* LEA Rd,[addr]: the register is the low three bits of the register byte
m16_exec_lea(fb, fw) ==
    m16_res([fw.cpu EXCEPT !.r[BitAnd(fb.v, 7)] = fw.v], 4)

m16_st_write(reg, fw) ==
    m16_res(m16_cpu_write_word(fw.cpu, fw.cpu.seg[M16_SEG_DS], fw.v,
                               fw.cpu.r[reg]), 5)

m16_exec_st(fb) == m16_st_write(BitAnd(fb.v, 7), m16_fetch_word(fb.cpu))

\* (int8_t)offset8 added to the uint16_t pc
m16_int8(v) == IF v >= 128 THEN v - 256 ELSE v

\* a faulty JR whose base is the address of the offset byte
m16_jr_from_offset(fo) ==
    m16_res([fo.cpu EXCEPT !.pc = (@ - 1 + m16_int8(fo.v)) % 65536], 3)

\* JR: pc += offset8 once the offset byte is fetched
m16_jr(fo) == m16_res([fo.cpu EXCEPT !.pc = (@ + m16_int8(fo.v)) % 65536], 3)

\* LOOP: CX is decremented, the jump is taken while CX is not 0
m16_loop(fo) ==
    m16_res([fo.cpu EXCEPT
               !.r[M16_REG_R2] = (@ - 1) % 65536,
               !.pc = IF (fo.cpu.r[M16_REG_R2] - 1) % 65536 # 0
                      THEN (@ + m16_int8(fo.v)) % 65536 ELSE @], 3)

\* a faulty DIV and IDIV that treat a zero divisor as a fatal error: C6
\* must reject it
m16_div_fatal(fb, opcode) ==
    IF fb.cpu.r[BitAnd(fb.v, 7)] = 0
    THEN m16_res([fb.cpu EXCEPT !.error = TRUE, !.halted = TRUE,
                    !.error_msg = Msg("Division by zero", opcode, 0)],
                 IF opcode = M16_OP_DIV THEN 16 ELSE 19)
    ELSE m16_res(fb.cpu, 16)

m16_exec_div_fatal(c, opcode) == m16_div_fatal(m16_fetch_byte(c), opcode)

\* DIV and IDIV: a zero divisor raises interrupt 0.  The signed quotient of
\* IDIV with a non-zero divisor is not modelled.
m16_div(x, reg, opcode, cycles) ==
    CASE x.r[reg] = 0 -> m16_res(m16_handle_interrupt(x, 0), cycles)
      [] x.r[reg] # 0 /\ opcode = M16_OP_DIV ->
           m16_res([x EXCEPT
                      !.r[M16_REG_R0] =
                          ((x.r[M16_REG_R3] * 65536 + x.r[M16_REG_R0])
                              \div x.r[reg]) % 65536,
                      !.r[M16_REG_R3] =
                          ((x.r[M16_REG_R3] * 65536 + x.r[M16_REG_R0])
                              % x.r[reg]) % 65536],
                   cycles)

m16_div_operand(fb, opcode) ==
    m16_div(fb.cpu, BitAnd(fb.v, 7), opcode,
            IF opcode = M16_OP_DIV THEN 16 ELSE 19)

m16_exec_div(c, opcode) == m16_div_operand(m16_fetch_byte(c), opcode)

\* SI or DI after one string operation of the given size: down when the
\* D flag is set
m16_advance(c, index, size) ==
    IF m16_cpu_get_flag(c, M16_FLAG_D) THEN (index - size) % 65536
    ELSE (index + size) % 65536

\* one iteration of the switch inside the REP loop
m16_string_op(c, next_op) ==
    CASE next_op = M16_OP_MOVSB ->
           LET rd == m16_cpu_read_byte(c, c.seg[M16_SEG_DS], c.r[M16_REG_R4])
               w  == m16_cpu_write_byte(rd.cpu, rd.cpu.seg[M16_SEG_ES],
                                        rd.cpu.r[M16_REG_R5], rd.v)
           IN  [w EXCEPT !.r[M16_REG_R4] = m16_advance(w, @, 1),
                         !.r[M16_REG_R5] = m16_advance(w, @, 1)]
      [] next_op = M16_OP_MOVSW ->
           LET rd == m16_cpu_read_word(c, c.seg[M16_SEG_DS], c.r[M16_REG_R4])
               w  == m16_cpu_write_word(rd.cpu, rd.cpu.seg[M16_SEG_ES],
                                        rd.cpu.r[M16_REG_R5], rd.v)
           IN  [w EXCEPT !.r[M16_REG_R4] = m16_advance(w, @, 2),
                         !.r[M16_REG_R5] = m16_advance(w, @, 2)]
      [] next_op = M16_OP_STOSB ->
           LET w == m16_cpu_write_byte(c, c.seg[M16_SEG_ES], c.r[M16_REG_R5],
                                       BitAnd(c.r[M16_REG_R0], 255))
           IN  [w EXCEPT !.r[M16_REG_R5] = m16_advance(w, @, 1)]
      [] next_op = M16_OP_STOSW ->
           LET w == m16_cpu_write_word(c, c.seg[M16_SEG_ES], c.r[M16_REG_R5],
                                       c.r[M16_REG_R0])
           IN  [w EXCEPT !.r[M16_REG_R5] = m16_advance(w, @, 2)]
      [] next_op = M16_OP_LODSB ->
           LET rd == m16_cpu_read_byte(c, c.seg[M16_SEG_DS], c.r[M16_REG_R4])
           IN  [rd.cpu EXCEPT
                  !.r[M16_REG_R0] = (c.r[M16_REG_R0] \div 256) * 256 + rd.v,
                  !.r[M16_REG_R4] = m16_advance(rd.cpu, @, 1)]
      [] next_op = M16_OP_LODSW ->
           LET rd == m16_cpu_read_word(c, c.seg[M16_SEG_DS], c.r[M16_REG_R4])
           IN  [rd.cpu EXCEPT !.r[M16_REG_R0] = rd.v,
                              !.r[M16_REG_R4] = m16_advance(rd.cpu, @, 2)]

\* a faulty REP that runs the string operation once and leaves the rest of
\* the count in CX: C29 must reject it
m16_rep_once(c, next_op, cycles) ==
    IF c.r[M16_REG_R2] = 0 THEN m16_res(c, cycles)
    ELSE IF next_op \in M16_RepOpcodes
    THEN m16_res([m16_string_op(c, next_op) EXCEPT
                    !.r[M16_REG_R2] = (@ - 1) % 65536], cycles + 2)
    ELSE [cpu |-> [c EXCEPT !.error = TRUE,
                     !.error_msg = Msg("Invalid opcode after REP", next_op, 0)],
          cycles |-> cycles, counted |-> FALSE]

\* REP: while CX is not 0, the string operation, CX--, two cycles; an
\* opcode that is no string operation sets error and returns at once
RECURSIVE m16_rep(_, _, _)
m16_rep(c, next_op, cycles) ==
    IF c.r[M16_REG_R2] = 0 THEN m16_res(c, cycles)
    ELSE IF next_op \in M16_RepOpcodes
    THEN m16_rep([m16_string_op(c, next_op) EXCEPT
                    !.r[M16_REG_R2] = (@ - 1) % 65536],
                 next_op, cycles + 2)
    ELSE [cpu |-> [c EXCEPT !.error = TRUE,
                     !.error_msg = Msg("Invalid opcode after REP", next_op, 0)],
          cycles |-> cycles, counted |-> FALSE]

\* IN, OUT, INB and OUTB: the port is added to MMIO_BASE; the word forms
\* go through cpu_read_phys_word and cpu_write_phys_word
m16_io(c, opcode, reg, imm16) ==
    LET io_addr == M16_MMIO_BASE + BitAnd(imm16, 65535)
    IN  CASE opcode = M16_OP_IN ->
               LET rd == m16_cpu_read_phys_word(c, io_addr)
               IN  m16_res([rd.cpu EXCEPT !.r[reg] = rd.v], 5)
          [] opcode = M16_OP_OUT ->
               m16_res(m16_cpu_write_phys_word(c, io_addr, c.r[reg]), 5)
          [] opcode = M16_OP_INB ->
               LET rd == m16_cpu_read_phys_byte(c, io_addr)
               IN  m16_res([rd.cpu EXCEPT !.r[reg] = rd.v], 5)
          [] opcode = M16_OP_OUTB ->
               m16_res(m16_cpu_write_phys_byte(c, io_addr,
                                               BitAnd(c.r[reg], 255)), 5)

m16_io_port(fb, fw, opcode) == m16_io(fw.cpu, opcode, BitAnd(fb.v, 7), fw.v)

m16_io_reg(fb, opcode) == m16_io_port(fb, m16_fetch_word(fb.cpu), opcode)

m16_exec_io(f, opcode) == m16_io_reg(m16_fetch_byte(f), opcode)

\* the switch of cpu_step, entered with the opcode fetched
m16_exec(f, opcode) ==
    CASE opcode = M16_OP_NOP -> m16_res(f, 2)
      [] opcode = M16_OP_HLT -> m16_res([f EXCEPT !.halted = TRUE], 2)
      [] opcode = M16_OP_WAIT -> m16_res([f EXCEPT !.waiting = TRUE], 2)
      [] opcode = M16_OP_INT ->
           LET v == m16_fetch_byte(f)
           IN  m16_res(m16_handle_interrupt(v.cpu, v.v), 6)
      [] opcode = M16_OP_IRET ->
           LET pc == m16_pop_word(f)
               cs == m16_pop_word([pc.cpu EXCEPT !.pc = pc.v])
               fl == m16_pop_word([cs.cpu EXCEPT !.seg[M16_SEG_CS] = cs.v])
           IN  m16_res([fl.cpu EXCEPT !.flags = fl.v], 6)
      [] opcode = M16_OP_CLI ->
           m16_res([f EXCEPT !.flags = ClrBits(@, M16_FLAG_I)], 2)
      [] opcode = M16_OP_STI ->
           m16_res([f EXCEPT !.flags = SetBits(@, M16_FLAG_I)], 2)
      [] opcode = M16_OP_CLC ->
           m16_res([f EXCEPT !.flags = ClrBits(@, M16_FLAG_C)], 2)
      [] opcode = M16_OP_STC ->
           m16_res([f EXCEPT !.flags = SetBits(@, M16_FLAG_C)], 2)
      [] opcode = M16_OP_PUSHF -> m16_res(m16_push_word(f, f.flags), 3)
      [] opcode = M16_OP_POPF ->
           LET fl == m16_pop_word(f)
           IN  m16_res([fl.cpu EXCEPT !.flags = fl.v], 3)
      [] opcode = M16_OP_MOV_RR ->
           LET b == m16_fetch_byte(f)
           IN  m16_res([b.cpu EXCEPT !.r[BitAnd(b.v \div 16, 7)] =
                                         b.cpu.r[BitAnd(b.v, 7)]], 3)
      [] opcode = M16_OP_MOV_RI ->
           LET b == m16_fetch_byte(f)
               w == m16_fetch_word(b.cpu)
           IN  m16_res([w.cpu EXCEPT !.r[BitAnd(b.v, 7)] = w.v], 4)
      [] opcode = M16_OP_MOV_SR ->
           LET b == m16_fetch_byte(f)
           IN  m16_res([b.cpu EXCEPT !.seg[BitAnd(b.v \div 16, 3)] =
                                         b.cpu.r[BitAnd(b.v, 7)]], 3)
      [] opcode = M16_OP_PUSH_R ->
           LET b == m16_fetch_byte(f)
           IN  m16_res(m16_push_word(b.cpu, b.cpu.r[BitAnd(b.v, 7)]), 3)
      [] opcode \in M16_OP_ADD_RR .. M16_OP_CMP_RI -> m16_exec_alu(f, opcode)
      [] opcode \in {M16_OP_DIV, M16_OP_IDIV} -> m16_exec_div(f, opcode)
      [] opcode \in {M16_OP_INC, M16_OP_DEC} ->
           m16_exec_incdec(m16_fetch_byte(f), opcode)
      [] opcode \in (M16_OP_AND_RR .. M16_OP_TEST_RI) \ {M16_OP_NOT} ->
           m16_exec_logic(f, opcode)
      [] opcode = M16_OP_NOT -> m16_not(m16_fetch_byte(f))
      [] opcode = M16_OP_LD -> m16_exec_ld(m16_fetch_byte(f))
      [] opcode = M16_OP_ST -> m16_exec_st(m16_fetch_byte(f))
      [] opcode = M16_OP_LD_IDX ->
           LET fb == m16_fetch_byte(f)
           IN  m16_exec_ld_idx(fb, m16_fetch_word(fb.cpu))
      [] opcode = M16_OP_LEA ->
           LET fb == m16_fetch_byte(f)
           IN  m16_exec_lea(fb, m16_fetch_word(fb.cpu))
      [] opcode = M16_OP_JR -> m16_jr(m16_fetch_byte(f))
      [] opcode = M16_OP_LOOP -> m16_loop(m16_fetch_byte(f))
      [] opcode = M16_OP_JMP ->
           LET w == m16_fetch_word(f)
           IN  m16_res([w.cpu EXCEPT !.pc = w.v], 4)
      [] opcode = M16_OP_REP ->
           LET n == m16_fetch_byte(f)
           IN  m16_rep(n.cpu, n.v, 1)
      [] opcode \in M16_OP_IN .. M16_OP_OUTB -> m16_exec_io(f, opcode)
      [] opcode \notin M16_KnownOpcodes ->
           [cpu |-> [f EXCEPT !.error = TRUE, !.halted = TRUE,
                       !.error_msg =
                           [text |-> "Unknown opcode", x |-> opcode,
                            cs |-> f.seg[M16_SEG_CS], y |-> f.pc - 1,
                            phys |-> seg_offset_to_phys(
                                         f.seg[M16_SEG_CS],
                                         (f.pc - 1) % 65536)]],
            cycles |-> 1, counted |-> FALSE]

\* the counters after the switch
m16_count(m, e) ==
    [cpu |-> IF e.counted
             THEN [e.cpu EXCEPT !.instructions = @ + 1, !.cycles = @ + e.cycles]
             ELSE e.cpu,
     mid |-> m, ret |-> e.cycles]

m16_decode(m, fi) == m16_count(m, m16_exec([fi.cpu EXCEPT !.ir = fi.v], fi.v))

m16_fetch_execute(m) == m16_decode(m, m16_fetch_byte(m))

\* a faulty cpu_step that returns 0 for a step spent waiting: C33 must
\* reject it
m16_cpu_step_idle(c) ==
    IF c.halted \/ c.error THEN [cpu |-> c, mid |-> c, ret |-> 0]
    ELSE IF c.waiting /\ ~(c.int_pending /\ m16_cpu_get_flag(c, M16_FLAG_I))
    THEN [cpu |-> c, mid |-> c, ret |-> 0]
    ELSE m16_fetch_execute(m16_check_interrupt([c EXCEPT !.waiting = FALSE]))

\* a faulty cpu_step in which an enabled pending interrupt wakes a halted
\* CPU: C1 must reject it
m16_cpu_step_wake(c) ==
    IF c.error \/ (c.halted /\ ~(c.int_pending /\ m16_cpu_get_flag(c, M16_FLAG_I)))
    THEN [cpu |-> c, mid |-> c, ret |-> 0]
    ELSE IF c.waiting /\ ~(c.int_pending /\ m16_cpu_get_flag(c, M16_FLAG_I))
    THEN [cpu |-> c, mid |-> c, ret |-> 1]
    ELSE m16_fetch_execute(
             m16_check_interrupt([c EXCEPT !.waiting = FALSE,
                                           !.halted = FALSE]))

\* a faulty cpu_step in which any pending interrupt, enabled or not, ends
\* the wait: C5 must reject it
m16_cpu_step_any_irq(c) ==
    IF c.halted \/ c.error THEN [cpu |-> c, mid |-> c, ret |-> 0]
    ELSE IF c.waiting /\ ~c.int_pending
    THEN [cpu |-> c, mid |-> c, ret |-> 1]
    ELSE m16_fetch_execute(m16_check_interrupt([c EXCEPT !.waiting = FALSE]))

\* cpu_step: the structure after the interrupt check (mid), the structure
\* it leaves (cpu) and the cycles it returns (ret)
m16_cpu_step(c) ==
    IF c.halted \/ c.error THEN [cpu |-> c, mid |-> c, ret |-> 0]
    ELSE IF c.waiting /\ ~(c.int_pending /\ m16_cpu_get_flag(c, M16_FLAG_I))
    THEN [cpu |-> c, mid |-> c, ret |-> 1]
    ELSE m16_fetch_execute(m16_check_interrupt([c EXCEPT !.waiting = FALSE]))

(***************************************************************************)
(* Source lines.  The assemblers are modelled from the point where a line  *)
(* has been split into its label, its directive or mnemonic and its        *)
(* operands: a line is a record                                            *)
(*    label  the text before the colon, "" when the line has no label; on  *)
(*           an "equ" line the name that stands before EQU                 *)
(*    kind   "none" (nothing after the label), "org", "db", "dw", "ds",    *)
(*           "ins" or "equ" (NAME EQU number)                              *)
(*    mn     the mnemonic of an instruction, in upper case                 *)
(*    args   the operands: numbers, symbol names, and symbol names with a  *)
(*           trailing +N or -N (N written in decimal)                      *)
(***************************************************************************)
Num(n) == [k |-> "num", n |-> n, name |-> ""]
Sym(s) == [k |-> "sym", n |-> 0, name |-> s]
Plus(s, n) == [k |-> "plus", n |-> n, name |-> s]
Minus(s, n) == [k |-> "minus", n |-> n, name |-> s]
\* a register operand, by the number parse_register gives it (-2 for SP),
\* and a memory operand [base + n] with a register as the base
Reg(r) == [k |-> "reg", n |-> r, name |-> ""]
Idx(r, n) == [k |-> "idx", n |-> n, name |-> "", base |-> r]
SP == -2
IsReg(arg) == arg.k = "reg" /\ arg.n >= 0
Line(label, kind, mn, args) ==
    [label |-> label, kind |-> kind, mn |-> mn, args |-> args]

NoLabels == [x \in {} |-> 0]

\* toupper, on the names the sources of the model are written with
str_upper(s) ==
    CASE s = "a" -> "A" [] s = "b" -> "B" [] s = "t" -> "T" [] OTHER -> s

\* strcasecmp: 0 when the names are equal but for the case of their letters
strcasecmp(s1, s2) == IF str_upper(s1) = str_upper(s2) THEN 0 ELSE 1

\* the entries of a label or equate table that a name matches; the lookup
\* loops return the first of them in the order of the table
Matches(table, name) == { x \in DOMAIN table : strcasecmp(x, name) = 0 }
Entered(table, name, value) ==
    [x \in DOMAIN table \cup {name} |-> IF x = name THEN value ELSE table[x]]
Ok(a) == [as |-> a, ok |-> TRUE]
Fail(a, msg) == [as |-> [a EXCEPT !.error = TRUE, !.error_msg = msg],
                 ok |-> FALSE]

(***************************************************************************)
(* Micro4 assembler: src/src/micro4/assembler.h, assembler.c               *)
(***************************************************************************)
M4_MAX_OUTPUT == 256

m4_asm_init ==
    [origin |-> 0, current_addr |-> 0, max_addr |-> 0, bytes_generated |-> 0,
     labels |-> NoLabels, output |-> EmptyMem, error |-> FALSE,
     error_msg |-> "", error_line |-> 0, lines_processed |-> 0]

\* find_label: the address of the label, -1 when there is none
m4_find_label(a, name) ==
    IF Matches(a.labels, name) = {} THEN -1
    ELSE a.labels[CHOOSE x \in Matches(a.labels, name) : TRUE]

m4_add_label(a, name, addr) ==
    IF m4_find_label(a, name) >= 0 THEN Fail(a, "Duplicate label: " \o name)
    ELSE Ok([a EXCEPT !.labels = Entered(@, name, addr)])

\* current_addr and max_addr are uint8_t fields
m4_emit_nibble(a, value) ==
    IF a.current_addr < M4_MAX_OUTPUT THEN
        [a EXCEPT !.output = Wr(@, a.current_addr, BitAnd(value, 15)),
                  !.max_addr = IF a.current_addr > @ THEN a.current_addr ELSE @,
                  !.current_addr = (@ + 1) % 256,
                  !.bytes_generated = @ + 1]
    ELSE a

m4_emit_byte(a, value) ==
    m4_emit_nibble(m4_emit_nibble(a, BitAnd(value \div 16, 15)),
                   BitAnd(value, 15))

\* a faulty parse_operand that leaves the value of a label it finds at 0
m4_parse_operand_zero(a, args, pass2) ==
    IF args = <<>> THEN [as |-> a, len |-> 0, value |-> 0]
    ELSE IF args[1].k = "num"
    THEN [as |-> a, len |-> 1, value |-> args[1].n % 65536]
    ELSE IF m4_find_label(a, args[1].name) >= 0
    THEN [as |-> a, len |-> 1, value |-> 0]
    ELSE IF pass2
    THEN [as |-> [a EXCEPT !.error = TRUE,
                           !.error_msg = "Undefined label: " \o args[1].name],
          len |-> 0, value |-> 0]
    ELSE [as |-> a, len |-> 1, value |-> 0]

\* parse_operand: a number, else a label; len is 0 when nothing was parsed
m4_parse_operand(a, args, pass2) ==
    IF args = <<>> THEN [as |-> a, len |-> 0, value |-> 0]
    ELSE IF args[1].k = "num"
    THEN [as |-> a, len |-> 1, value |-> args[1].n % 65536]
    ELSE IF m4_find_label(a, args[1].name) >= 0
    THEN [as |-> a, len |-> 1, value |-> m4_find_label(a, args[1].name)]
    ELSE IF pass2
    THEN [as |-> [a EXCEPT !.error = TRUE,
                           !.error_msg = "Undefined label: " \o args[1].name],
          len |-> 0, value |-> 0]
    ELSE [as |-> a, len |-> 1, value |-> 0]

\* a faulty DB loop that stores each value as a byte, two nibbles: the
\* scenario of C8 must reject it
RECURSIVE m4_db_bytes(_, _, _)
m4_db_bytes(a, args, pass2) ==
    IF args = <<>> \/ args[1].k # "num" THEN a
    ELSE m4_db_bytes(IF pass2 THEN m4_emit_byte(a, args[1].n % 256)
                     ELSE [a EXCEPT !.current_addr = (@ + 2) % 256],
                     Tail(args), pass2)

\* the loop of the DB directive: numbers only, one nibble each
RECURSIVE m4_db(_, _, _)
m4_db(a, args, pass2) ==
    IF args = <<>> \/ args[1].k # "num" THEN a
    ELSE m4_db(IF pass2 THEN m4_emit_nibble(a, args[1].n % 256)
               ELSE [a EXCEPT !.current_addr = (@ + 1) % 256],
               Tail(args), pass2)

\* the mnemonics whose opcode cpu.h defines
m4_opcode(mn) ==
    CASE mn = "HLT" -> M4_OP_HLT [] mn = "LDA" -> M4_OP_LDA
      [] mn = "STA" -> M4_OP_STA [] mn = "ADD" -> M4_OP_ADD
      [] mn = "SUB" -> M4_OP_SUB [] mn = "JMP" -> M4_OP_JMP
      [] mn = "JZ" -> M4_OP_JZ   [] mn = "LDI" -> M4_OP_LDI
m4_mnemonics == {"HLT", "LDA", "STA", "ADD", "SUB", "JMP", "JZ", "LDI"}
m4_needs_addr(mn) == mn \in {"LDA", "STA", "ADD", "SUB", "JMP", "JZ"}
m4_is_immediate(mn) == mn = "LDI"

m4_instruction(a, line, pass2) ==
    IF line.mn \notin m4_mnemonics THEN Fail(a, "Unknown instruction")
    ELSE
        LET opcode == m4_opcode(line.mn)
            takes  == m4_needs_addr(line.mn) \/ m4_is_immediate(line.mn)
            po     == IF takes THEN m4_parse_operand(a, line.args, pass2)
                      ELSE [as |-> a, len |-> 1, value |-> 0]
            b      == po.as
        IN  IF takes /\ po.len = 0 /\ pass2 THEN
                IF b.error THEN [as |-> b, ok |-> FALSE]
                ELSE Fail(b, "Expected operand")
            ELSE IF pass2 THEN
                IF m4_is_immediate(line.mn)
                THEN Ok(m4_emit_byte(b, (opcode * 16 + BitAnd(po.value, 15))
                                          % 256))
                ELSE IF m4_needs_addr(line.mn)
                THEN Ok(m4_emit_byte(m4_emit_byte(b, (opcode * 16) % 256),
                                     po.value % 256))
                ELSE Ok(m4_emit_byte(b, (opcode * 16) % 256))
            ELSE Ok([b EXCEPT !.current_addr =
                        (@ + IF m4_needs_addr(line.mn) THEN 4 ELSE 2) % 256])

\* process_line: the assembler it leaves and the value it returns.  DW and
\* DS are no directives of this assembler: such a line is read as an
\* instruction.
m4_process_line(a, line, pass2) ==
    LET lab == IF line.label # "" /\ ~pass2
               THEN m4_add_label(a, line.label, a.current_addr)
               ELSE Ok(a)
        b   == lab.as
    IN  IF ~lab.ok THEN lab
        ELSE CASE line.kind = "none" -> Ok(b)
               [] line.kind = "org" ->
                    IF line.args # <<>> /\ line.args[1].k = "num"
                    THEN Ok([b EXCEPT !.origin = line.args[1].n % 256,
                                      !.current_addr = line.args[1].n % 256])
                    ELSE Fail(b, "Invalid ORG operand")
               [] line.kind = "db" -> Ok(m4_db(b, line.args, pass2))
               [] line.kind \in {"dw", "ds"} -> Fail(b, "Unknown instruction")
               [] line.kind = "ins" -> m4_instruction(b, line, pass2)

(***************************************************************************)
(* Micro8 assembler: src/src/micro8/assembler.h, assembler.c               *)
(***************************************************************************)
M8_MAX_OUTPUT == 65536
M8_ASM_ORIGIN == 512

m8_asm_init ==
    [origin |-> M8_ASM_ORIGIN, current_addr |-> M8_ASM_ORIGIN, max_addr |-> 0,
     bytes_generated |-> 0, labels |-> NoLabels, equates |-> NoLabels,
     output |-> EmptyMem, error |-> FALSE, error_msg |-> "",
     error_line |-> 0, lines_processed |-> 0]

\* find_label and find_equate: the value of the entry, -1 when there is none
m8_find_label(a, name) ==
    IF Matches(a.labels, name) = {} THEN -1
    ELSE a.labels[CHOOSE x \in Matches(a.labels, name) : TRUE]

m8_find_equate(a, name) ==
    IF Matches(a.equates, name) = {} THEN -1
    ELSE a.equates[CHOOSE x \in Matches(a.equates, name) : TRUE]

m8_add_label(a, name, addr) ==
    IF m8_find_label(a, name) >= 0 \/ m8_find_equate(a, name) >= 0
    THEN Fail(a, "Duplicate symbol: " \o name)
    ELSE Ok([a EXCEPT !.labels = Entered(@, name, addr)])

\* a faulty add_equate that looks for the name among the equates only
m8_add_equate_own(a, name, value) ==
    IF m8_find_equate(a, name) >= 0
    THEN Fail(a, "Duplicate symbol: " \o name)
    ELSE Ok([a EXCEPT !.equates = Entered(@, name, value)])

m8_add_equate(a, name, value) ==
    IF m8_find_label(a, name) >= 0 \/ m8_find_equate(a, name) >= 0
    THEN Fail(a, "Duplicate symbol: " \o name)
    ELSE Ok([a EXCEPT !.equates = Entered(@, name, value)])

\* current_addr and max_addr are uint16_t fields
m8_emit_byte(a, value) ==
    IF a.current_addr < M8_MAX_OUTPUT THEN
        [a EXCEPT !.output = Wr(@, a.current_addr, value),
                  !.max_addr = IF a.current_addr > @ THEN a.current_addr ELSE @,
                  !.current_addr = (@ + 1) % 65536,
                  !.bytes_generated = @ + 1]
    ELSE a

m8_emit_word(a, value) ==
    m8_emit_byte(m8_emit_byte(a, value % 256), (value \div 256) % 256)

\* the offset after a label: parse_number is handed the text from the sign
\* on, so that strtol reads -N as the number -N, which is stored in a
\* uint16_t; the sign is then looked at once more, and the stored number is
\* subtracted for '-' and added for '+'
m8_label_offset(value, arg) ==
    CASE arg.k = "plus" -> (value + (arg.n % 65536)) % 65536
      [] arg.k = "minus" -> (value - ((-arg.n) % 65536)) % 65536
      [] OTHER -> value

\* parse_operand: a number, else a symbol; len is 0 when nothing was parsed
m8_parse_operand(a, args, pass2) ==
    IF args = <<>> THEN [as |-> a, len |-> 0, value |-> 0]
    ELSE IF args[1].k = "num"
    THEN [as |-> a, len |-> 1, value |-> args[1].n % 65536]
    ELSE IF m8_find_equate(a, args[1].name) >= 0
    THEN [as |-> a, len |-> 1,
          value |-> m8_label_offset(m8_find_equate(a, args[1].name) % 65536,
                                    args[1])]
    ELSE IF m8_find_label(a, args[1].name) >= 0
    THEN [as |-> a, len |-> 1,
          value |-> m8_label_offset(m8_find_label(a, args[1].name) % 65536,
                                    args[1])]
    ELSE IF pass2
    THEN [as |-> [a EXCEPT !.error = TRUE,
                           !.error_msg = "Undefined symbol: " \o args[1].name],
          len |-> 0, value |-> 0]
    ELSE [as |-> a, len |-> 1, value |-> m8_label_offset(0, args[1])]

\* the loops of the DB and DW directives: one operand after the other
\* until one does not parse
RECURSIVE m8_data(_, _, _, _)
m8_data(a, args, pass2, word) ==
    IF args = <<>> THEN a
    ELSE LET po == m8_parse_operand(a, args, pass2)
         IN  IF po.len = 0 THEN po.as
             ELSE m8_data(
                    IF pass2
                    THEN IF word THEN m8_emit_word(po.as, po.value % 65536)
                         ELSE m8_emit_byte(po.as, po.value % 256)
                    ELSE [po.as EXCEPT !.current_addr =
                             (@ + IF word THEN 2 ELSE 1) % 65536],
                    Tail(args), pass2, word)

\* the loop of the DS directive in pass 2, emit_byte(as, 0) count times, in
\* closed form: the cells from current_addr on (a uint16_t, which wraps and
\* so always passes emit_byte's test) are zeroed
m8_space(a, count) ==
    LET cells == { (a.current_addr + i) % 65536 : i \in 0 .. count - 1 }
        last  == IF a.current_addr + count > 65536 THEN 65535
                 ELSE a.current_addr + count - 1
    IN  IF count = 0 THEN a
        ELSE [a EXCEPT !.output = [x \in DOMAIN a.output \ cells |->
                                     a.output[x]],
                       !.max_addr = IF last > @ THEN last ELSE @,
                       !.current_addr = (@ + count) % 65536,
                       !.bytes_generated = @ + count]

m8_process_directive(a, line, pass2) ==
    CASE line.kind = "org" ->
           IF line.args # <<>> /\ line.args[1].k = "num"
           THEN LET value == line.args[1].n % 65536
                IN  Ok([a EXCEPT !.origin = value,
                                 !.current_addr = value])
           ELSE Fail(a, "Invalid ORG operand")
      [] line.kind = "db" -> Ok(m8_data(a, line.args, pass2, FALSE))
      [] line.kind = "dw" -> Ok(m8_data(a, line.args, pass2, TRUE))
      [] line.kind = "ds" ->
           IF line.args # <<>> /\ line.args[1].k = "num"
           THEN LET value == line.args[1].n % 65536
                IN  Ok(IF pass2 THEN m8_space(a, value)
                       ELSE [a EXCEPT !.current_addr = (@ + value) % 65536])
           ELSE Ok(a)

\* the INSTR_REL8 rows of the instruction table that the model uses
m8_rel8 == [JR |-> M8_OP_JR, JRZ |-> M8_OP_JRZ, JRNZ |-> M8_OP_JRNZ]

\* a faulty INSTR_REL8 case that lets the offset 128 through
m8_rel8_emit_wide(a, opcode, target, pass2) ==
    IF ~pass2 THEN Ok([a EXCEPT !.current_addr = (@ + 2) % 65536])
    ELSE IF target - (a.current_addr + 2) < -128
            \/ target - (a.current_addr + 2) > 128
    THEN Fail(a, "Relative jump out of range: "
                     \o ToString(target - (a.current_addr + 2)))
    ELSE Ok(m8_emit_byte(m8_emit_byte(a, opcode),
                         (target - (a.current_addr + 2)) % 256))

\* INSTR_REL8 once the target is parsed: offset = (int)target -
\* (int)(current_addr + 2), emitted as (uint8_t)(int8_t)offset
m8_rel8_emit(a, opcode, target, pass2) ==
    IF ~pass2 THEN Ok([a EXCEPT !.current_addr = (@ + 2) % 65536])
    ELSE IF target - (a.current_addr + 2) < -128
            \/ target - (a.current_addr + 2) > 127
    THEN Fail(a, "Relative jump out of range: "
                     \o ToString(target - (a.current_addr + 2)))
    ELSE Ok(m8_emit_byte(m8_emit_byte(a, opcode),
                         (target - (a.current_addr + 2)) % 256))

\* the INSTR_REG_REG rows of the instruction table but MOV, which is dealt
\* with before the table is looked at
m8_reg_reg ==
    [ADD |-> M8_OP_ADD_BASE, ADC |-> M8_OP_ADC_BASE, SUB |-> M8_OP_SUB_BASE,
     SBC |-> M8_OP_SBC_BASE, CMP |-> M8_OP_CMP_BASE, AND |-> M8_OP_AND_BASE,
     OR |-> M8_OP_OR_BASE, XOR |-> M8_OP_XOR_BASE]

\* the instructions of the table that the lines of the model use: NOP and
\* HLT (INSTR_IMPLICIT), JMP with an address (INSTR_ADDR16), the relative
\* jumps (INSTR_REL8), MOV Rd,Rs and the INSTR_REG_REG rows
m8_instruction(a, line, pass2) ==
    CASE line.mn \in {"NOP", "HLT"} ->
           IF pass2
           THEN Ok(m8_emit_byte(a, IF line.mn = "NOP" THEN M8_OP_NOP
                                    ELSE M8_OP_HLT))
           ELSE Ok([a EXCEPT !.current_addr = (@ + 1) % 65536])
      [] line.mn = "JMP" ->
           LET po == m8_parse_operand(a, line.args, pass2)
           IN  IF po.len = 0 /\ pass2 THEN Fail(po.as, "Expected address")
               ELSE IF pass2
               THEN Ok(m8_emit_word(m8_emit_byte(po.as, M8_OP_JMP),
                                     po.value % 65536))
               ELSE Ok([po.as EXCEPT !.current_addr = (@ + 3) % 65536])
      [] line.mn \in DOMAIN m8_rel8 ->
           LET po == m8_parse_operand(a, line.args, pass2)
           IN  IF po.len = 0 /\ pass2
               THEN Fail(po.as, "Expected label or offset")
               ELSE m8_rel8_emit(po.as, m8_rel8[line.mn], po.value, pass2)
      [] line.mn = "MOV" ->
           IF ~IsReg(line.args[1])
           THEN Fail(a, "Expected destination register")
           ELSE IF ~IsReg(line.args[2])
           THEN Fail(a, "Expected source register")
           ELSE IF pass2
           THEN Ok(m8_emit_byte(a, BitOr(BitOr(64, line.args[1].n * 8),
                                         line.args[2].n)))
           ELSE Ok([a EXCEPT !.current_addr = (@ + 1) % 65536])
      [] line.mn \in DOMAIN m8_reg_reg ->
           IF ~IsReg(line.args[1])
           THEN Fail(a, "Expected destination register")
           ELSE IF ~IsReg(line.args[2])
           THEN Fail(a, "Expected source register")
           ELSE IF pass2
           THEN Ok(m8_emit_byte(a, m8_reg_reg[line.mn] + line.args[2].n))
           ELSE Ok([a EXCEPT !.current_addr = (@ + 1) % 65536])

\* NAME EQU number is dealt with before the label: the equate is entered in
\* pass 1 and nothing else of the line is looked at
m8_process_line(a, line, pass2) ==
    LET lab == IF line.label # "" /\ ~pass2
               THEN m8_add_label(a, line.label, a.current_addr)
               ELSE Ok(a)
    IN  IF line.kind = "equ"
        THEN IF pass2 THEN Ok(a)
             ELSE m8_add_equate(a, line.label, line.args[1].n % 65536)
        ELSE IF ~lab.ok THEN lab
        ELSE IF line.kind = "none" THEN Ok(lab.as)
        ELSE IF line.kind = "ins" THEN m8_instruction(lab.as, line, pass2)
        ELSE m8_process_directive(lab.as, line, pass2)

(***************************************************************************)
(* Micro16 assembler: src/src/micro16/assembler.h, assembler.c             *)
(***************************************************************************)
M16_MAX_OUTPUT == 1048576

\* a uint32_t value: every address and operand of the model lies far below
\* 2^32, where a 32-bit field holds it unchanged.  The one value above 2^31
\* is the result of an offset taken from a label (m16_label_offset), which
\* is held as the int that the code's (int) cast and its truncations to 8
\* and 16 bits make of it.
U32(x) == x
M16_ASM_ORIGIN == 256

m16_asm_init ==
    [origin |-> M16_ASM_ORIGIN, current_addr |-> M16_ASM_ORIGIN, max_addr |-> 0,
     bytes_generated |-> 0, labels |-> NoLabels, equates |-> NoLabels,
     output |-> EmptyMem, error |-> FALSE, error_msg |-> "",
     error_line |-> 0, lines_processed |-> 0]

\* find_label and find_equate: whether there is an entry, and its value
m16_find_label(a, name) ==
    IF Matches(a.labels, name) = {} THEN [found |-> 0, value |-> 0]
    ELSE [found |-> 1,
          value |-> a.labels[CHOOSE x \in Matches(a.labels, name) : TRUE]]

m16_find_equate(a, name) ==
    IF Matches(a.equates, name) = {} THEN [found |-> 0, value |-> 0]
    ELSE [found |-> 1,
          value |-> a.equates[CHOOSE x \in Matches(a.equates, name) : TRUE]]

m16_add_label(a, name, addr) ==
    IF m16_find_label(a, name).found # 0 \/ m16_find_equate(a, name).found # 0
    THEN Fail(a, "Duplicate symbol: " \o name)
    ELSE Ok([a EXCEPT !.labels = Entered(@, name, addr)])

m16_add_equate(a, name, value) ==
    IF m16_find_label(a, name).found # 0 \/ m16_find_equate(a, name).found # 0
    THEN Fail(a, "Duplicate symbol: " \o name)
    ELSE Ok([a EXCEPT !.equates = Entered(@, name, value)])

\* current_addr and max_addr are uint32_t fields
m16_emit_byte(a, value) ==
    IF a.current_addr < M16_MAX_OUTPUT THEN
        [a EXCEPT !.output = Wr(@, a.current_addr, value),
                  !.max_addr = IF a.current_addr > @ THEN a.current_addr ELSE @,
                  !.current_addr = U32(@ + 1),
                  !.bytes_generated = @ + 1]
    ELSE a

\* a faulty emit_word that emits the high byte first
m16_emit_word_be(a, value) ==
    m16_emit_byte(m16_emit_byte(a, (value \div 256) % 256), value % 256)

m16_emit_word(a, value) ==
    m16_emit_byte(m16_emit_byte(a, value % 256), (value \div 256) % 256)

\* the offset after a label: parse_number is handed the text from the sign
\* on, so that strtol reads -N as the number -N, which is stored in a
\* uint32_t (2^32 - N, the int -N); the sign is then looked at once more,
\* and the stored number is subtracted for '-' and added for '+'
m16_label_offset(value, arg) ==
    CASE arg.k = "plus" -> U32(value + arg.n)
      [] arg.k = "minus" -> U32(value - (-arg.n))
      [] OTHER -> value

\* parse_operand: a number, else a symbol; len is 0 when nothing was parsed
m16_parse_operand(a, args, pass2) ==
    IF args = <<>> THEN [as |-> a, len |-> 0, value |-> 0]
    ELSE IF args[1].k = "num"
    THEN [as |-> a, len |-> 1, value |-> U32(args[1].n)]
    ELSE IF m16_find_equate(a, args[1].name).found # 0
    THEN [as |-> a, len |-> 1,
          value |-> m16_label_offset(m16_find_equate(a, args[1].name).value,
                                     args[1])]
    ELSE IF m16_find_label(a, args[1].name).found # 0
    THEN [as |-> a, len |-> 1,
          value |-> m16_label_offset(m16_find_label(a, args[1].name).value,
                                     args[1])]
    ELSE IF pass2
    THEN [as |-> [a EXCEPT !.error = TRUE,
                           !.error_msg = "Undefined symbol: " \o args[1].name],
          len |-> 0, value |-> 0]
    ELSE [as |-> a, len |-> 1, value |-> m16_label_offset(0, args[1])]

\* the loops of the DB and DW directives: one operand after the other
\* until one does not parse
RECURSIVE m16_data(_, _, _, _)
m16_data(a, args, pass2, word) ==
    IF args = <<>> THEN a
    ELSE LET po == m16_parse_operand(a, args, pass2)
         IN  IF po.len = 0 THEN po.as
             ELSE m16_data(
                    IF pass2
                    THEN IF word THEN m16_emit_word(po.as, po.value % 65536)
                         ELSE m16_emit_byte(po.as, po.value % 256)
                    ELSE [po.as EXCEPT !.current_addr =
                             U32(@ + IF word THEN 2 ELSE 1)],
                    Tail(args), pass2, word)

\* the loop of the DS directive in pass 2, emit_byte(as, 0) count times, in
\* closed form: the cells from current_addr on are zeroed as long as
\* current_addr lies below MAX_OUTPUT_SIZE, where emit_byte stops
m16_space(a, count) ==
    LET n     == IF a.current_addr + count <= M16_MAX_OUTPUT THEN count
                 ELSE IF a.current_addr < M16_MAX_OUTPUT
                 THEN M16_MAX_OUTPUT - a.current_addr ELSE 0
        cells == a.current_addr .. a.current_addr + n - 1
    IN  IF n = 0 THEN a
        ELSE [a EXCEPT !.output = [x \in DOMAIN a.output \ cells |->
                                     a.output[x]],
                       !.max_addr = IF a.current_addr + n - 1 > @
                                    THEN a.current_addr + n - 1 ELSE @,
                       !.current_addr = U32(@ + n),
                       !.bytes_generated = @ + n]

m16_process_directive(a, line, pass2) ==
    CASE line.kind = "org" ->
           IF line.args # <<>> /\ line.args[1].k = "num"
           THEN LET value == U32(line.args[1].n)
                IN  Ok([a EXCEPT !.origin = IF value < @ THEN value ELSE @,
                                 !.current_addr = value])
           ELSE Fail(a, "Invalid ORG operand")
      [] line.kind = "db" -> Ok(m16_data(a, line.args, pass2, FALSE))
      [] line.kind = "dw" -> Ok(m16_data(a, line.args, pass2, TRUE))
      [] line.kind = "ds" ->
           IF line.args # <<>> /\ line.args[1].k = "num"
           THEN LET value == U32(line.args[1].n)
                IN  Ok(IF pass2 THEN m16_space(a, value)
                       ELSE [a EXCEPT !.current_addr = U32(@ + value)])
           ELSE Ok(a)

\* the INSTR_REL8 rows of the instruction table that the model uses
m16_rel8 == [JR |-> M16_OP_JR, LOOP |-> M16_OP_LOOP]

\* INSTR_REL8 once the target is parsed: offset = (int)target -
\* (int)(current_addr + 2), emitted as (uint8_t)(int8_t)offset
m16_rel8_emit(a, opcode, target, pass2) ==
    IF ~pass2 THEN Ok([a EXCEPT !.current_addr = U32(@ + 2)])
    ELSE IF target - (a.current_addr + 2) < -128
            \/ target - (a.current_addr + 2) > 127
    THEN Fail(a, "Relative jump out of range: "
                     \o ToString(target - (a.current_addr + 2)))
    ELSE Ok(m16_emit_byte(m16_emit_byte(a, opcode),
                          (target - (a.current_addr + 2)) % 256))

\* two bytes, and an opcode, a byte and a word, in pass 2; the address
\* counter moved on in pass 1
m16_emit2(a, opcode, byte, pass2) ==
    IF pass2 THEN Ok(m16_emit_byte(m16_emit_byte(a, opcode), byte % 256))
    ELSE Ok([a EXCEPT !.current_addr = U32(@ + 2)])

m16_emit4(a, opcode, byte, word, pass2) ==
    IF pass2
    THEN Ok(m16_emit_word(m16_emit_byte(m16_emit_byte(a, opcode), byte % 256),
                          word % 65536))
    ELSE Ok([a EXCEPT !.current_addr = U32(@ + 4)])

\* an operand that parse_register does not take as a general register is
\* handed to parse_operand: the text SP is then a symbol
m16_operand_of(arg) ==
    CASE arg.k = "reg" -> <<Sym("SP")>>
      [] arg.k = "idx" -> <<Plus("SP", arg.n)>>
      [] OTHER -> <<arg>>

\* MOV Rd,Rs / MOV Rd,SP / MOV Rd,imm16 / MOV SP,Rs
m16_mov(a, d, s, pass2) ==
    IF IsReg(d)
    THEN IF IsReg(s)
         THEN m16_emit2(a, M16_OP_MOV_RR, BitOr(d.n * 16, s.n), pass2)
         ELSE IF s.k = "reg"
         THEN m16_emit2(a, M16_OP_MOV_R_SP, d.n, pass2)
         ELSE LET po == m16_parse_operand(a, <<s>>, pass2)
              IN  IF po.len = 0 /\ pass2
                  THEN Fail(po.as, "Expected operand")
                  ELSE m16_emit4(po.as, M16_OP_MOV_RI, d.n, po.value, pass2)
    ELSE IF ~IsReg(s) THEN Fail(a, "Expected register")
    ELSE m16_emit2(a, M16_OP_MOV_SP_R, s.n, pass2)

\* ADD and SUB: the special case of SP with an immediate, then the
\* two-operand arithmetic on a register and a register or an immediate
m16_add_sub(a, mn, d, s, pass2) ==
    IF d.k = "reg" /\ d.n = SP
    THEN LET po == m16_parse_operand(a, m16_operand_of(s), pass2)
         IN  IF po.len = 0 /\ pass2 THEN Fail(po.as, "Expected immediate")
             ELSE IF pass2
             THEN Ok(m16_emit_word(
                         m16_emit_byte(po.as, IF mn = "ADD"
                                              THEN M16_OP_ADD_SP_I
                                              ELSE M16_OP_SUB_SP_I),
                         po.value % 65536))
             ELSE Ok([po.as EXCEPT !.current_addr = U32(@ + 3)])
    ELSE IF ~IsReg(d) THEN Fail(a, "Expected register")
    ELSE IF IsReg(s)
    THEN m16_emit2(a, IF mn = "ADD" THEN M16_OP_ADD_RR ELSE M16_OP_SUB_RR,
                   BitOr(d.n * 16, s.n), pass2)
    ELSE LET po == m16_parse_operand(a, m16_operand_of(s), pass2)
         IN  IF po.len = 0 /\ pass2 THEN Fail(po.as, "Expected operand")
             ELSE m16_emit4(po.as, IF mn = "ADD" THEN M16_OP_ADD_RI
                                   ELSE M16_OP_SUB_RI, d.n, po.value, pass2)

\* LD Rd,[Rs+offset] and LD Rd,[SP+offset]
m16_ld_idx(a, d, s, pass2) ==
    IF ~IsReg(d) THEN Fail(a, "Expected register")
    ELSE IF s.k # "idx" THEN Fail(a, "Expected '[' for memory operand")
    ELSE IF s.base = SP
    THEN m16_emit4(a, M16_OP_LD_IDX_SP, d.n, s.n, pass2)
    ELSE m16_emit4(a, M16_OP_LD_IDX, BitOr(d.n * 16, s.base), s.n, pass2)

\* LEA Rd,[Rs+offset]; with SP as the base the operand is read as an
\* address, the symbol SP and an offset
m16_lea(a, d, s, pass2) ==
    IF ~IsReg(d) THEN Fail(a, "Expected register")
    ELSE IF s.k # "idx" THEN Fail(a, "Expected '[' for address operand")
    ELSE IF s.base >= 0
    THEN m16_emit4(a, M16_OP_LEA, BitOr(d.n * 16, s.base), s.n, pass2)
    ELSE LET po == m16_parse_operand(a, m16_operand_of(s), pass2)
         IN  m16_emit4(po.as, M16_OP_LEA, d.n, po.value, pass2)

\* the instructions of the table that the lines of the model use: NOP and
\* HLT (INSTR_IMPLICIT), JMP with an address (INSTR_ADDR16), the relative
\* jumps (INSTR_REL8), and MOV, ADD, SUB, LD and LEA in the forms above
m16_instruction(a, line, pass2) ==
    CASE line.mn \in {"NOP", "HLT"} ->
           IF pass2
           THEN Ok(m16_emit_byte(a, IF line.mn = "NOP" THEN M16_OP_NOP
                                    ELSE M16_OP_HLT))
           ELSE Ok([a EXCEPT !.current_addr = U32(@ + 1)])
      [] line.mn = "JMP" ->
           LET po == m16_parse_operand(a, line.args, pass2)
           IN  IF po.len = 0 /\ pass2 THEN Fail(po.as, "Expected address")
               ELSE IF pass2
               THEN Ok(m16_emit_word(m16_emit_byte(po.as, M16_OP_JMP),
                                     po.value % 65536))
               ELSE Ok([po.as EXCEPT !.current_addr = U32(@ + 3)])
      [] line.mn \in DOMAIN m16_rel8 ->
           LET po == m16_parse_operand(a, line.args, pass2)
           IN  IF po.len = 0 /\ pass2
               THEN Fail(po.as, "Expected label or offset")
               ELSE m16_rel8_emit(po.as, m16_rel8[line.mn], po.value, pass2)
      [] line.mn = "MOV" ->
           m16_mov(a, line.args[1], line.args[2], pass2)
      [] line.mn \in {"ADD", "SUB"} ->
           m16_add_sub(a, line.mn, line.args[1], line.args[2], pass2)
      [] line.mn = "LD" -> m16_ld_idx(a, line.args[1], line.args[2], pass2)
      [] line.mn = "LEA" -> m16_lea(a, line.args[1], line.args[2], pass2)

\* NAME EQU number is dealt with before the label: the equate is entered in
\* pass 1 and nothing else of the line is looked at
m16_process_line(a, line, pass2) ==
    LET lab == IF line.label # "" /\ ~pass2
               THEN m16_add_label(a, line.label, a.current_addr)
               ELSE Ok(a)
    IN  IF line.kind = "equ"
        THEN IF pass2 THEN Ok(a)
             ELSE m16_add_equate(a, line.label, U32(line.args[1].n))
        ELSE IF ~lab.ok THEN lab
        ELSE IF line.kind = "none" THEN Ok(lab.as)
        ELSE IF line.kind = "ins" THEN m16_instruction(lab.as, line, pass2)
        ELSE m16_process_directive(lab.as, line, pass2)

(***************************************************************************)
(* asm_assemble, the same in the three assemblers but for the origin and   *)
(* for the error flag, which Micro4 does not clear before pass 2.          *)
(***************************************************************************)
Archs == {"micro4", "micro8", "micro16"}

asm_init(ar) ==
    CASE ar = "micro4" -> m4_asm_init
      [] ar = "micro8" -> m8_asm_init
      [] ar = "micro16" -> m16_asm_init

process_line(ar, a, line, pass2) ==
    CASE ar = "micro4" -> m4_process_line(a, line, pass2)
      [] ar = "micro8" -> m8_process_line(a, line, pass2)
      [] ar = "micro16" -> m16_process_line(a, line, pass2)

\* "Reset for pass 2"
asm_reset_pass2(ar, a) ==
    [a EXCEPT !.current_addr = a.origin, !.max_addr = 0,
              !.bytes_generated = 0,
              !.error = IF ar = "micro4" THEN @ ELSE FALSE]

\* one pass over the lines from line i on
RECURSIVE asm_pass(_, _, _, _, _)
asm_pass(ar, a, src, i, pass2) ==
    IF i > Len(src) THEN Ok(a)
    ELSE LET r == process_line(ar, a, src[i], pass2)
         IN  IF ~r.ok THEN [as |-> [r.as EXCEPT !.error_line = i], ok |-> FALSE]
             ELSE asm_pass(ar,
                           IF pass2 THEN [r.as EXCEPT !.lines_processed = @ + 1]
                           ELSE r.as,
                           src, i + 1, pass2)

asm_assemble(ar, src) ==
    LET p1 == asm_pass(ar, asm_init(ar), src, 1, FALSE)
    IN  IF ~p1.ok THEN p1
        ELSE LET p2 == asm_pass(ar, asm_reset_pass2(ar, p1.as), src, 1, TRUE)
             IN  [as |-> p2.as, ok |-> p2.ok /\ ~p2.as.error]

\* asm_get_output and asm_get_output_size: the cells 0 .. max_addr
asm_get_output(a) == [i \in 1 .. a.max_addr + 1 |-> Rd(a.output, i - 1)]

(***************************************************************************)
(* The CPU of the chosen architecture.                                     *)
(***************************************************************************)
cpu_init(ar) ==
    CASE ar = "micro4" -> m4_cpu_init
      [] ar = "micro8" -> m8_cpu_init
      [] ar = "micro16" -> m16_cpu_init

cpu_load_program(ar, c, program, addr) ==
    CASE ar = "micro4" -> m4_cpu_load_program(c, program, addr)
      [] ar = "micro8" -> m8_cpu_load_program(c, program, addr)
      [] ar = "micro16" -> m16_cpu_load_program(c, program, addr)

cpu_reset(ar, c) ==
    CASE ar = "micro4" -> m4_cpu_reset(c)
      [] ar = "micro8" -> m8_cpu_reset(c)
      [] ar = "micro16" -> m16_cpu_reset(c)

cpu_step(ar, c) ==
    CASE ar = "micro4" ->
           LET s == m4_cpu_step(c) IN [cpu |-> s.cpu, mid |-> c, ret |-> s.ret]
      [] ar = "micro8" -> m8_cpu_step(c)
      [] ar = "micro16" -> m16_cpu_step(c)

cpu_request_interrupt(ar, c, vector) ==
    CASE ar = "micro8" -> m8_cpu_request_interrupt(c)
      [] ar = "micro16" -> m16_cpu_request_interrupt(c, vector)

\* a fresh CPU with the pieces of a program image loaded, each a pair of a
\* start address and the bytes (nibbles on Micro4) stored from it
RECURSIVE Loaded(_, _, _)
Loaded(ar, c, pieces) ==
    IF pieces = <<>> THEN c
    ELSE Loaded(ar, cpu_load_program(ar, c, Head(pieces)[2], Head(pieces)[1]),
                Tail(pieces))

\* interrupt enable: the ie field of Micro8, the I flag of Micro16
IntEnabled(ar, c) ==
    CASE ar = "micro4" -> FALSE
      [] ar = "micro8" -> c.ie
      [] ar = "micro16" -> m16_cpu_get_flag(c, M16_FLAG_I)

IntPending(ar, c) == ar # "micro4" /\ c.int_pending

(***************************************************************************)
(* The programs of Spec.                                                   *)
(***************************************************************************)
\* LDI 5 / ADD_VAL: DB 3 / ADD ADD_VAL / HLT
ScenarioSource ==
    << Line("", "ins", "LDI", <<Num(5)>>),
       Line("ADD_VAL", "db", "", <<Num(3)>>),
       Line("", "ins", "ADD", <<Sym("ADD_VAL")>>),
       Line("", "ins", "HLT", <<>>) >>

ScenarioImage ==
    << <<0, asm_get_output(asm_assemble("micro4", ScenarioSource).as)>> >>

M4_Programs ==
    { ScenarioImage,
      \* LDI 3 / an opcode the CPU does not know
      << <<0, <<7, 3, 8, 0>>>> >>,
      \* JMP 0xFF
      << <<0, <<5, 0, 15, 15>>>> >>,
      \* LDI 2 / loop: SUB one / JZ end / JMP loop / end: HLT / one: 1
      << <<0, <<7, 2, 4, 0, 1, 0, 6, 0, 0, 14, 5, 0, 0, 2, 0, 0, 1>>>> >> }

\* the handler at INT_VECTOR: LDI R1,#5 / RETI
M8_Handler == <<M8_INT_VECTOR, <<M8_OP_LDI_BASE + 1, 5, M8_OP_RETI>>>>

M8_Programs ==
    { \* EI / NOP / NOP / HLT
      << <<M8_DEFAULT_PC, <<M8_OP_EI, M8_OP_NOP, M8_OP_NOP, M8_OP_HLT>>>>,
         M8_Handler >>,
      \* NOP / NOP / HLT, interrupts never enabled
      << <<M8_DEFAULT_PC, <<M8_OP_NOP, M8_OP_NOP, M8_OP_HLT>>>>, M8_Handler >>,
      \* an opcode the CPU does not know
      << <<M8_DEFAULT_PC, <<M8_OP_HLT + 1>>>>, M8_Handler >>,
      \* SCF / PUSHF / CCF / POPF / DI / JMP 0x0208 / HLT
      << <<M8_DEFAULT_PC, <<M8_OP_SCF, M8_OP_PUSHF, M8_OP_CCF, M8_OP_POPF,
                            M8_OP_DI, M8_OP_JMP, 8, 2, M8_OP_HLT>>>>,
         M8_Handler >> }

\* vector 0 -> 0000:0200 (IRET), vector 1 -> 0000:0210 (HLT)
M16_Vectors ==
    << <<M16_IVT_BASE, <<0, 2, 0, 0, 16, 2, 0, 0>>>>,
       <<512, <<M16_OP_IRET>>>>, <<528, <<M16_OP_HLT>>>> >>

M16_Mains ==
    { \* STI / NOP / WAIT / NOP / HLT
      <<M16_OP_STI, M16_OP_NOP, M16_OP_WAIT, M16_OP_NOP, M16_OP_HLT>>,
      \* WAIT / HLT, interrupts never enabled
      <<M16_OP_WAIT, M16_OP_HLT>>,
      \* MOV CX,#1 / REP STOSB / MOV CX,#1 / REP NOP
      <<M16_OP_MOV_RI, 2, 1, 0, M16_OP_REP, M16_OP_STOSB,
        M16_OP_MOV_RI, 2, 1, 0, M16_OP_REP, M16_OP_NOP>>,
      \* MOV AX,#0xFFFF / MOV SS,AX / STI / DIV BX / HLT
      <<M16_OP_MOV_RI, 0, 255, 255, M16_OP_MOV_SR, 32, M16_OP_STI,
        M16_OP_DIV, 1, M16_OP_HLT>>,
      \* MOV AX,#5 / MOV BX,#0 / DIV BX / HLT
      <<M16_OP_MOV_RI, 0, 5, 0, M16_OP_MOV_RI, 1, 0, 0, M16_OP_DIV, 1,
        M16_OP_HLT>>,
      \* MOV BX,#2 / MOV AX,#5 / DIV BX / IDIV CX / HLT
      <<M16_OP_MOV_RI, 1, 2, 0, M16_OP_MOV_RI, 0, 5, 0, M16_OP_DIV, 1,
        M16_OP_IDIV, 2, M16_OP_HLT>>,
      \* an opcode without a case (LOCK)
      <<M16_OP_WAIT + 1>>,
      \* MOV AX,#0xFFFF / MOV CS,AX: the next fetch is past the memory
      <<M16_OP_MOV_RI, 0, 255, 255, M16_OP_MOV_SR, 0>>,
      \* STC / PUSHF / CLC / POPF / CLI / MOV BX,AX / PUSH BX / INT 1
      <<M16_OP_STC, M16_OP_PUSHF, M16_OP_CLC, M16_OP_POPF, M16_OP_CLI,
        M16_OP_MOV_RR, 16, M16_OP_PUSH_R, 1, M16_OP_INT, 1>>,
      \* JMP 0x0104 / HLT / HLT
      <<M16_OP_JMP, 4, 1, M16_OP_HLT, M16_OP_HLT>> }

M16_Programs == { <<<<M16_DEFAULT_PC, m>>>> \o M16_Vectors : m \in M16_Mains }

Programs(ar) ==
    CASE ar = "micro4" -> M4_Programs
      [] ar = "micro8" -> M8_Programs
      [] ar = "micro16" -> M16_Programs

(***************************************************************************)
(* Spec: a CPU running a program.                                          *)
(***************************************************************************)
\* resets of one run
MaxResets == 1

AsmIdle ==
    [st |-> m4_asm_init, src |-> <<>>, pass |-> "idle", ln |-> 0,
     reached |-> NoLabels]

FirstOp == [name |-> "init", before |-> "init", resets |-> 0]

Init ==
    /\ arch \in Archs
    /\ image \in Programs(arch)
    /\ cpu = Loaded(arch, cpu_init(arch), image)
    /\ prev = cpu
    /\ mid = cpu
    /\ op = FirstOp
    /\ ret = 0
    /\ as = AsmIdle

\* cpu_step
Step ==
    /\ as.pass = "idle"
    /\ cpu.instructions < MaxInstr
    /\ LET s == cpu_step(arch, cpu)
       IN  /\ cpu' = s.cpu
           /\ mid' = s.mid
           /\ ret' = s.ret
    /\ prev' = cpu
    /\ op' = [op EXCEPT !.name = "step", !.before = op.name]
    /\ UNCHANGED <<arch, image, as>>

\* cpu_request_interrupt, which takes a vector on Micro16 only
RequestInterrupt ==
    /\ as.pass = "idle"
    /\ arch # "micro4"
    /\ \E vector \in 0 .. MaxVector :
          /\ arch = "micro8" => vector = 0
          /\ cpu' = cpu_request_interrupt(arch, cpu, vector)
    /\ prev' = cpu
    /\ op' = [op EXCEPT !.name = "request_interrupt", !.before = op.name]
    /\ UNCHANGED <<arch, image, mid, ret, as>>

\* cpu_reset
Reset ==
    /\ as.pass = "idle"
    /\ op.resets < MaxResets
    /\ cpu' = cpu_reset(arch, cpu)
    /\ prev' = cpu
    /\ op' = [name |-> "reset", before |-> op.name, resets |-> op.resets + 1]
    /\ UNCHANGED <<arch, image, mid, ret, as>>

Next == Step \/ RequestInterrupt \/ Reset

Spec == Init /\ [][Next]_vars

(***************************************************************************)
(* Properties of Spec.  prev, mid, op and ret describe the last operation: *)
(* a property of one call is an invariant over them.                       *)
(***************************************************************************)
Runs(c) == ~c.halted /\ ~c.error

\* the step fetched an opcode: the CPU ran and did not stay waiting
Executes(ar, c) ==
    /\ Runs(c)
    /\ ar = "micro16" =>
          ~(c.waiting /\ ~(c.int_pending /\ m16_cpu_get_flag(c, M16_FLAG_I)))

InMem(addr) == addr < M16_MEM_SIZE
Word(mem, addr) == Rd(mem, addr) + 256 * Rd(mem, addr + 1)

\* the physical address of the word a push leaves n words below sp
StackWord(c, n) ==
    seg_offset_to_phys(c.seg[M16_SEG_SS], (c.sp - 2 * n) % 65536)

\* C1: a step of a Halted or Errored CPU returns 0 and leaves the whole
\* structure (registers, flags, PC, SP, memory, counters, pending interrupt)
\* as it was, on all three CPUs, however many such steps follow one
\* another and whether or not an enabled interrupt is pending.
C1_StoppedStepChangesNothing ==
    op.name = "step" /\ (prev.halted \/ prev.error) => ret = 0 /\ cpu = prev

\* the second of two consecutive steps of a halted CPU with an enabled
\* interrupt pending
C1_Witness ==
    /\ op.name = "step" /\ op.before = "step"
    /\ prev.halted
    /\ IntPending(arch, prev) /\ IntEnabled(arch, prev)
    /\ ret = 0 /\ cpu = prev

\* C2: in every state of every CPU, Errored implies Halted.
C2_ErroredImpliesHalted == cpu.error => cpu.halted

\* C3: a step that starts with an interrupt pending and enabled dispatches
\* it before it fetches: the pending flag is cleared, the stack holds the
\* flags, (CS) and PC the CPU had before the step wherever the stack lies
\* in memory, the PC is the handler's, and the opcode the step fetches is
\* the one at the handler's address.
C3_DispatchBeforeFetch ==
    op.name = "step" /\ arch # "micro4" /\ Runs(prev)
        /\ prev.int_pending /\ IntEnabled(arch, prev) =>
    /\ ~mid.int_pending
    /\ arch = "micro8" =>
          /\ mid.pc = M8_INT_VECTOR
          /\ Rd(mid.memory, prev.sp) = prev.pc \div 256
          /\ Rd(mid.memory, (prev.sp - 1) % 65536) = prev.pc % 256
          /\ Rd(mid.memory, (prev.sp - 2) % 65536) = prev.flags
          /\ mid.sp = (prev.sp - 3) % 65536
          /\ cpu.ir = Rd(mid.memory, M8_INT_VECTOR)
    /\ arch = "micro16" =>
          /\ InMem(StackWord(prev, 1) + 1) =>
                Word(mid.memory, StackWord(prev, 1)) = prev.flags
          /\ InMem(StackWord(prev, 2) + 1) =>
                Word(mid.memory, StackWord(prev, 2)) = prev.seg[M16_SEG_CS]
          /\ InMem(StackWord(prev, 3) + 1) =>
                Word(mid.memory, StackWord(prev, 3)) = prev.pc
          /\ mid.sp = (prev.sp - 6) % 65536
          /\ mid.pc = Word(mid.memory, M16_IVT_BASE + 4 * prev.int_vector)
          /\ mid.seg[M16_SEG_CS] =
                Word(mid.memory, M16_IVT_BASE + 4 * prev.int_vector + 2)
          /\ InMem(seg_offset_to_phys(mid.seg[M16_SEG_CS], mid.pc)) =>
                cpu.ir = Rd(mid.memory,
                            seg_offset_to_phys(mid.seg[M16_SEG_CS], mid.pc))

\* an interrupt requested after a step, dispatched by the step that follows
\* with the stack in memory
C3_Witness ==
    /\ op.name = "step" /\ op.before = "request_interrupt"
    /\ arch = "micro16" /\ Runs(prev)
    /\ prev.int_pending /\ IntEnabled(arch, prev)
    /\ prev.instructions > 0
    /\ InMem(StackWord(prev, 1) + 1)
    /\ Word(mid.memory, StackWord(prev, 3)) = prev.pc
    /\ mid.pc # prev.pc

\* C4: request_interrupt changes the pending flag and the vector number
\* and nothing else; a step dispatches only if interrupts are enabled when
\* it starts; with interrupts disabled a step with an interrupt pending
\* does exactly what it does with none pending, and leaves it pending.
C4_RequestThenGatedDispatch ==
    /\ op.name = "request_interrupt" =>
          /\ cpu.int_pending
          /\ DOMAIN cpu = DOMAIN prev
          /\ \A f \in DOMAIN cpu \ {"int_pending", "int_vector"} :
                cpu[f] = prev[f]
    /\ op.name = "step" /\ arch # "micro4" /\ Runs(prev) =>
          /\ mid.int_pending # prev.int_pending => IntEnabled(arch, prev)
          /\ prev.int_pending /\ ~IntEnabled(arch, prev) =>
                /\ mid = prev
                /\ cpu = [cpu_step(arch, [prev EXCEPT !.int_pending = FALSE])
                             .cpu EXCEPT !.int_pending = TRUE]

\* a step that executes an instruction past a pending, disabled interrupt
C4_Witness ==
    /\ op.name = "step" /\ arch # "micro4" /\ Runs(prev)
    /\ prev.int_pending /\ ~IntEnabled(arch, prev)
    /\ cpu.instructions = prev.instructions + 1
    /\ cpu.int_pending /\ mid = prev

\* C5: on Micro16 a step of a Waiting CPU with no pending enabled interrupt
\* returns 1 and changes nothing; with one it leaves Waiting and dispatches
\* it; and Waiting is left by such a step or by a reset only.
C5_WaitingUntilInterrupt ==
    arch = "micro16" =>
    /\ op.name = "step" /\ Runs(prev) /\ prev.waiting =>
          IF prev.int_pending /\ IntEnabled(arch, prev)
          THEN /\ ~mid.waiting /\ ~mid.int_pending
               /\ mid.pc = Word(mid.memory,
                                M16_IVT_BASE + 4 * prev.int_vector)
          ELSE ret = 1 /\ cpu = prev
    /\ prev.waiting /\ ~cpu.waiting =>
          \/ op.name = "reset"
          \/ op.name = "step" /\ prev.int_pending /\ IntEnabled(arch, prev)

\* the second of two consecutive steps of a waiting CPU whose pending
\* interrupt is disabled
C5_Witness ==
    /\ arch = "micro16" /\ op.name = "step" /\ op.before = "step"
    /\ Runs(prev) /\ prev.waiting
    /\ prev.int_pending /\ ~IntEnabled(arch, prev)
    /\ ret = 1 /\ cpu.waiting

\* the last step executed DIV or IDIV with a zero divisor
DivByZeroStep ==
    /\ arch = "micro16" /\ op.name = "step" /\ Executes(arch, prev)
    /\ ~mid.error
    /\ cpu.ir \in {M16_OP_DIV, M16_OP_IDIV}
    /\ mid.r[BitAnd(Rd(mid.memory,
                       seg_offset_to_phys(mid.seg[M16_SEG_CS],
                                          (mid.pc + 1) % 65536)), 7)] = 0

\* the three words of the delivery all lie in the physical memory
DivStackInMem == \A n \in 1 .. 3 : InMem(StackWord(mid, n) + 1)

\* interrupt 0 delivered from the state after the operand fetch, and the
\* next step fetching at the handler's address without another dispatch
DivDelivered ==
    /\ Word(cpu.memory, StackWord(mid, 1)) = mid.flags
    /\ Word(cpu.memory, StackWord(mid, 2)) = mid.seg[M16_SEG_CS]
    /\ Word(cpu.memory, StackWord(mid, 3)) = (mid.pc + 2) % 65536
    /\ cpu.sp = (mid.sp - 6) % 65536
    /\ cpu.flags = ClrBits(ClrBits(mid.flags, M16_FLAG_I), M16_FLAG_T)
    /\ cpu.pc = Word(cpu.memory, M16_IVT_BASE)
    /\ cpu.seg[M16_SEG_CS] = Word(cpu.memory, M16_IVT_BASE + 2)
    /\ m16_cpu_step(cpu).mid = cpu
    /\ m16_cpu_step(cpu).cpu.ir =
          Rd(cpu.memory, seg_offset_to_phys(cpu.seg[M16_SEG_CS], cpu.pc))

C8_ScenarioLeaves8 ==
    arch = "micro4" /\ image = ScenarioImage /\ op.resets = 0 /\ cpu.halted =>
        ~cpu.error /\ cpu.a = 8 /\ ~cpu.z

\* C8: the scenario's image, loaded at 0 into a fresh Micro4 and stepped,
\* never errors and halts with its fourth instruction, the accumulator at
\* 12 (the DB nibble is executed as the opcode of an ADD from address 0)
\* and Z clear.
C8_ScenarioLeaves12 ==
    arch = "micro4" /\ image = ScenarioImage /\ op.resets = 0 =>
        /\ ~cpu.error
        /\ cpu.halted <=> cpu.instructions >= 4
        /\ cpu.halted => cpu.a = 12 /\ ~cpu.z /\ cpu = m4_cpu_run(prev)

\* the scenario run to its HLT
C8_Witness ==
    /\ arch = "micro4" /\ image = ScenarioImage /\ op.resets = 0
    /\ op.name = "step" /\ ~prev.halted /\ cpu.halted
    /\ cpu.a = 12 /\ cpu.instructions = 4

(***************************************************************************)
(* SpecAlu: the 8- and 16-bit CPUs running programs that load two operands *)
(* and the carry and then execute one arithmetic instruction.              *)
(***************************************************************************)
\* the values next to 0, to the sign change and to the largest value
Boundary(sign) ==
    (0 .. Near) \cup ((sign - 1 - Near) .. (sign + Near))
        \cup ((2 * sign - 1 - Near) .. (2 * sign - 1))

\* LDI R0,#a / LDI R1,#b / SCF or CCF / the instruction / HLT, the
\* instruction on R0 and R1 or on R0 and the immediate b
M8_AluPrograms ==
    { << <<M8_DEFAULT_PC,
           <<M8_OP_LDI_BASE, a, M8_OP_LDI_BASE + 1, b, cf>> \o ins
               \o <<M8_OP_HLT>> >> >> :
        a \in Boundary(128), b \in Boundary(128),
        cf \in {M8_OP_SCF, M8_OP_CCF},
        ins \in { <<base + 1>> : base \in {M8_OP_ADD_BASE, M8_OP_ADC_BASE,
                                           M8_OP_SUB_BASE, M8_OP_SBC_BASE,
                                           M8_OP_CMP_BASE} }
                \cup { <<base, imm>> : base \in {M8_OP_ADDI_BASE,
                                                 M8_OP_SUBI_BASE},
                                       imm \in Boundary(128) } }

\* MOV AX,#a / MOV BX,#b / STC or CLC / the instruction / HLT, the
\* instruction on AX and BX or on AX and an immediate word
M16_AluPrograms ==
    { << <<M16_DEFAULT_PC,
           <<M16_OP_MOV_RI, 0, a % 256, a \div 256,
             M16_OP_MOV_RI, 1, b % 256, b \div 256, cf>> \o ins
               \o <<M16_OP_HLT>> >> >> :
        a \in Boundary(32768), b \in Boundary(32768),
        cf \in {M16_OP_STC, M16_OP_CLC},
        ins \in { <<opcode, 1>> : opcode \in {M16_OP_ADD_RR, M16_OP_ADC_RR,
                                              M16_OP_SUB_RR, M16_OP_SBC_RR,
                                              M16_OP_CMP_RR} }
                \cup { <<opcode, 0, imm % 256, imm \div 256>> :
                         opcode \in {M16_OP_ADD_RI, M16_OP_ADC_RI,
                                     M16_OP_SUB_RI, M16_OP_SBC_RI,
                                     M16_OP_CMP_RI},
                         imm \in {0, 32767, 65535} } }

AluPrograms(ar) ==
    CASE ar = "micro8" -> M8_AluPrograms
      [] ar = "micro16" -> M16_AluPrograms

InitAlu ==
    /\ arch \in {"micro8", "micro16"}
    /\ image \in AluPrograms(arch)
    /\ cpu = Loaded(arch, cpu_init(arch), image)
    /\ prev = cpu
    /\ mid = cpu
    /\ op = FirstOp
    /\ ret = 0
    /\ as = AsmIdle

SpecAlu == InitAlu /\ [][Step]_vars

\* the arithmetic instruction the last step executed, read off the
\* structure before it: its operands, the carry that went in, the flags
\* that came out
M8_Alu ==
    LET src  == BitAnd(cpu.ir, 7)
        base == cpu.ir - src
        imm  == base \in {M8_OP_ADDI_BASE, M8_OP_SUBI_BASE}
    IN  [add  |-> base \in {M8_OP_ADD_BASE, M8_OP_ADC_BASE, M8_OP_ADDI_BASE},
         sbc  |-> base = M8_OP_SBC_BASE,
         a    |-> IF imm THEN prev.r[src] ELSE prev.r[0],
         b    |-> IF imm THEN Rd(prev.memory, (prev.pc + 1) % 65536)
                  ELSE prev.r[src],
         cin  |-> IF HasBits(prev.flags, M8_FLAG_C) THEN 1 ELSE 0,
         uses |-> base \in {M8_OP_ADC_BASE, M8_OP_SBC_BASE},
         sign |-> 128,
         o    |-> HasBits(cpu.flags, M8_FLAG_O),
         c    |-> HasBits(cpu.flags, M8_FLAG_C)]

M16_Alu ==
    LET at(n) == Rd(prev.memory, seg_offset_to_phys(prev.seg[M16_SEG_CS],
                                                     (prev.pc + n) % 65536))
        rr    == cpu.ir \in {M16_OP_ADD_RR, M16_OP_ADC_RR, M16_OP_SUB_RR,
                             M16_OP_SBC_RR, M16_OP_CMP_RR}
    IN  [add  |-> cpu.ir \in {M16_OP_ADD_RR, M16_OP_ADD_RI, M16_OP_ADC_RR,
                              M16_OP_ADC_RI},
         sbc  |-> cpu.ir \in {M16_OP_SBC_RR, M16_OP_SBC_RI},
         a    |-> IF rr THEN prev.r[BitAnd(at(1) \div 16, 7)]
                  ELSE prev.r[BitAnd(at(1), 7)],
         b    |-> IF rr THEN prev.r[BitAnd(at(1), 7)]
                  ELSE at(2) + 256 * at(3),
         cin  |-> IF HasBits(prev.flags, M16_FLAG_C) THEN 1 ELSE 0,
         uses |-> cpu.ir \in {M16_OP_ADC_RR, M16_OP_ADC_RI, M16_OP_SBC_RR,
                              M16_OP_SBC_RI},
         sign |-> 32768,
         o    |-> HasBits(cpu.flags, M16_FLAG_O),
         c    |-> HasBits(cpu.flags, M16_FLAG_C)]

Alu == IF arch = "micro8" THEN M8_Alu ELSE M16_Alu

\* the last step executed ADD, ADC, ADDI, SUB, SBC, SUBI or CMP
AluStep ==
    /\ arch \in {"micro8", "micro16"}
    /\ op.name = "step" /\ Executes(arch, prev) /\ mid = prev
    /\ IF arch = "micro8"
       THEN cpu.ir - BitAnd(cpu.ir, 7) \in
                {M8_OP_ADD_BASE, M8_OP_ADC_BASE, M8_OP_ADDI_BASE,
                 M8_OP_SUB_BASE, M8_OP_SBC_BASE, M8_OP_SUBI_BASE,
                 M8_OP_CMP_BASE}
       ELSE cpu.ir \in M16_OP_ADD_RR .. M16_OP_CMP_RI

\* the truncated result of x
AluResult(x) ==
    IF x.add THEN (x.a + x.b + (IF x.uses THEN x.cin ELSE 0)) % (2 * x.sign)
    ELSE (x.a - x.b - (IF x.uses THEN x.cin ELSE 0)) % (2 * x.sign)

\* the two's-complement test on the operands and the truncated result
SignTest(x) ==
    IF x.add
    THEN /\ (x.a >= x.sign) = (x.b >= x.sign)
         /\ (AluResult(x) >= x.sign) # (x.a >= x.sign)
    ELSE /\ (x.a >= x.sign) # (x.b >= x.sign)
         /\ (AluResult(x) >= x.sign) # (x.a >= x.sign)

\* C9: after every add-form and subtract-form instruction of the 8- and
\* 16-bit CPUs, Overflow is set iff the two's-complement test holds on the
\* instruction's operands and its truncated result.
C9_OverflowIsSignTest == AluStep => (Alu.o <=> SignTest(Alu))

\* C10: after SBC on the 8- and 16-bit CPUs, Carry is set iff a is less
\* than b plus the borrow that went in, computed without truncation.
C10_SbcCarryIsBorrow ==
    AluStep /\ Alu.sbc => (Alu.c <=> Alu.a < Alu.b + Alu.cin)

\* C14: after ADD and ADDI, and after ADC counting the carry that went in,
\* on the 8- and 16-bit CPUs Carry is set iff the exact sum exceeds the
\* largest value of the register (0xFF or 0xFFFF).
C14_AddCarryIsExactSum ==
    AluStep /\ Alu.add =>
        (Alu.c <=> Alu.a + Alu.b + (IF Alu.uses THEN Alu.cin ELSE 0)
                      > 2 * Alu.sign - 1)

\* an ADC whose sum exceeds the largest value only by the carry that went in
C14_Witness ==
    /\ AluStep /\ Alu.add /\ Alu.uses /\ Alu.cin = 1
    /\ Alu.a + Alu.b = 2 * Alu.sign - 1
    /\ Alu.c

\* C15: after SUB, SUBI and CMP on the 8- and 16-bit CPUs Carry is set iff
\* the minuend is less than the subtrahend, both unsigned.
C15_SubCarryIsBelow ==
    AluStep /\ ~Alu.add /\ ~Alu.uses => (Alu.c <=> Alu.a < Alu.b)

\* a subtraction of equal operands, which borrows nothing, on the 16-bit CPU
\* and one of a larger subtrahend on the 8-bit CPU
C15_Witness ==
    /\ AluStep /\ ~Alu.add /\ ~Alu.uses
    /\ \/ arch = "micro16" /\ Alu.a = Alu.b /\ Alu.a > 0 /\ ~Alu.c
       \/ arch = "micro8" /\ Alu.a < Alu.b /\ Alu.c

(***************************************************************************)
(* SpecFlags: the three CPUs running programs that set the flags, load two *)
(* operands and then execute one logic, INC/DEC, data-movement or (Micro4) *)
(* ADD instruction.                                                        *)
(***************************************************************************)
\* every combination of Carry, Overflow, Zero and Sign
M8_FlagBytes ==
    { c + o + z + s : c \in {0, M8_FLAG_C}, o \in {0, M8_FLAG_O},
                      z \in {0, M8_FLAG_Z}, s \in {0, M8_FLAG_S} }

M16_FlagWords ==
    { c + o + z + s : c \in {0, M16_FLAG_C}, o \in {0, M16_FLAG_O},
                      z \in {0, M16_FLAG_Z}, s \in {0, M16_FLAG_S} }

\* the instruction under test: on R0 and R1 or on R0 and the immediate b,
\* and, with b = 0 only, on R0 alone or on R0 and memory
M8_FlagInstrs(b) ==
    { <<M8_OP_AND_BASE + 1>>, <<M8_OP_OR_BASE + 1>>, <<M8_OP_XOR_BASE + 1>>,
      <<M8_OP_ANDI, 0, b>>, <<M8_OP_ORI, 0, b>>, <<M8_OP_XORI, 0, b>> }
      \cup
    IF b # 0 THEN {}
    ELSE { <<M8_OP_NOT_BASE>>, <<M8_OP_INC_BASE>>, <<M8_OP_DEC_BASE>>,
           <<M8_OP_MOV_RR, 32>>, <<M8_OP_LD_BASE + 2, 1, 2>>,
           <<M8_OP_LDZ_BASE + 2, 0>>, <<M8_OP_ST_BASE, 0, 3>>,
           <<M8_OP_STZ_BASE, 16>> }

\* the byte POPF pops (a fresh SP of 0xFFFF makes it the byte at 0), then
\* POPF / LDI R0,#a / LDI R1,#b / the instruction / HLT
M8_FlagProgram(fl, a, b, ins) ==
    << <<0, <<fl>>>>,
       <<M8_DEFAULT_PC,
         <<M8_OP_POPF, M8_OP_LDI_BASE, a, M8_OP_LDI_BASE + 1, b>> \o ins
             \o <<M8_OP_HLT>> >> >>

M8_FlagPrograms ==
    UNION { { M8_FlagProgram(fl, a, b, ins) :
                fl \in M8_FlagBytes, a \in Boundary(128),
                ins \in M8_FlagInstrs(b) } : b \in Boundary(128) }

\* the instruction under test: on AX and BX or on AX and the immediate b,
\* and, with b = 0 only, on AX alone or on AX and memory
M16_FlagInstrs(b) ==
    { <<M16_OP_AND_RR, 1>>, <<M16_OP_OR_RR, 1>>, <<M16_OP_XOR_RR, 1>>,
      <<M16_OP_TEST_RR, 1>>,
      <<M16_OP_AND_RI, 0, b % 256, b \div 256>>,
      <<M16_OP_OR_RI, 0, b % 256, b \div 256>>,
      <<M16_OP_XOR_RI, 0, b % 256, b \div 256>>,
      <<M16_OP_TEST_RI, 0, b % 256, b \div 256>> }
      \cup
    IF b # 0 THEN {}
    ELSE { <<M16_OP_NOT, 0>>, <<M16_OP_INC, 0>>, <<M16_OP_DEC, 0>>,
           <<M16_OP_MOV_RR, 32>>, <<M16_OP_LD, 2, 1, 1>>,
           <<M16_OP_ST, 0, 0, 3>> }

\* the word POPF pops at SS:SP of a fresh CPU, then
\* POPF / MOV AX,#a / MOV BX,#b / the instruction / HLT
M16_FlagProgram(fl, a, b, ins) ==
    << <<seg_offset_to_phys(M16_DEFAULT_SS, M16_DEFAULT_SP),
         <<fl % 256, fl \div 256>>>>,
       <<M16_DEFAULT_PC,
         <<M16_OP_POPF, M16_OP_MOV_RI, 0, a % 256, a \div 256,
           M16_OP_MOV_RI, 1, b % 256, b \div 256>> \o ins
             \o <<M16_OP_HLT>> >> >>

M16_FlagPrograms ==
    UNION { { M16_FlagProgram(fl, a, b, ins) :
                fl \in M16_FlagWords, a \in Boundary(32768),
                ins \in M16_FlagInstrs(b) } : b \in Boundary(32768) }

\* LDI a / LDA, STA, ADD or SUB [0x10] / HLT with the nibble b at 0x10, and
\* LDI a / LDI b / HLT
M4_FlagPrograms ==
    { << <<0, <<M4_OP_LDI, a, opcode, 0, 1, 0, M4_OP_HLT, 0>>>>,
         <<16, <<b>>>> >> :
        a \in 0 .. M4_NIBBLE_MASK, b \in 0 .. M4_NIBBLE_MASK,
        opcode \in {M4_OP_LDA, M4_OP_STA, M4_OP_ADD, M4_OP_SUB} }
      \cup
    { << <<0, <<M4_OP_LDI, a, M4_OP_LDI, b, M4_OP_HLT, 0>>>> >> :
        a \in 0 .. M4_NIBBLE_MASK, b \in 0 .. M4_NIBBLE_MASK }

FlagPrograms(ar) ==
    CASE ar = "micro4" -> M4_FlagPrograms
      [] ar = "micro8" -> M8_FlagPrograms
      [] ar = "micro16" -> M16_FlagPrograms

InitFlags ==
    /\ arch \in Archs
    /\ image \in FlagPrograms(arch)
    /\ cpu = Loaded(arch, cpu_init(arch), image)
    /\ prev = cpu
    /\ mid = cpu
    /\ op = FirstOp
    /\ ret = 0
    /\ as = AsmIdle

SpecFlags == InitFlags /\ [][Step]_vars

\* the last step fetched and executed an instruction
Executed == op.name = "step" /\ Executes(arch, prev) /\ mid = prev

\* the byte n places after the opcode of the last step
Operand(n) ==
    IF arch = "micro8" THEN Rd(prev.memory, (prev.pc + n) % 65536)
    ELSE Rd(prev.memory, seg_offset_to_phys(prev.seg[M16_SEG_CS],
                                            (prev.pc + n) % 65536))

\* the flags before and after the last step, by name
FlagBit(name) ==
    IF arch = "micro8"
    THEN CASE name = "C" -> M8_FLAG_C [] name = "O" -> M8_FLAG_O
           [] name = "Z" -> M8_FLAG_Z [] name = "S" -> M8_FLAG_S
    ELSE CASE name = "C" -> M16_FLAG_C [] name = "O" -> M16_FLAG_O
           [] name = "Z" -> M16_FLAG_Z [] name = "S" -> M16_FLAG_S
FlagBefore(name) == HasBits(prev.flags, FlagBit(name))
FlagAfter(name) == HasBits(cpu.flags, FlagBit(name))

\* the logic instruction the last step executed: its kind, its operands and
\* the register width
M8_Logic ==
    LET reg == BitAnd(cpu.ir, 7)
        imm == cpu.ir \in {M8_OP_ANDI, M8_OP_ORI, M8_OP_XORI}
    IN  [kind |-> CASE cpu.ir = M8_OP_ANDI \/ m8_in(cpu.ir, M8_OP_AND_BASE)
                         -> "and"
                    [] cpu.ir = M8_OP_ORI \/ m8_in(cpu.ir, M8_OP_OR_BASE)
                         -> "or"
                    [] cpu.ir = M8_OP_XORI \/ m8_in(cpu.ir, M8_OP_XOR_BASE)
                         -> "xor"
                    [] m8_in(cpu.ir, M8_OP_NOT_BASE) -> "not"
                    [] OTHER -> "none",
         a    |-> IF imm THEN prev.r[BitAnd(Operand(1), 7)]
                  ELSE IF m8_in(cpu.ir, M8_OP_NOT_BASE) THEN prev.r[reg]
                  ELSE prev.r[0],
         b    |-> IF imm THEN Operand(2) ELSE prev.r[reg],
         sign |-> 128]

M16_Logic ==
    LET rr == cpu.ir \in {M16_OP_AND_RR, M16_OP_OR_RR, M16_OP_XOR_RR,
                          M16_OP_TEST_RR}
    IN  [kind |-> CASE cpu.ir \in {M16_OP_AND_RR, M16_OP_AND_RI} -> "and"
                    [] cpu.ir \in {M16_OP_OR_RR, M16_OP_OR_RI} -> "or"
                    [] cpu.ir \in {M16_OP_XOR_RR, M16_OP_XOR_RI} -> "xor"
                    [] cpu.ir \in {M16_OP_TEST_RR, M16_OP_TEST_RI} -> "test"
                    [] cpu.ir = M16_OP_NOT -> "not"
                    [] OTHER -> "none",
         a    |-> IF rr THEN prev.r[BitAnd(Operand(1) \div 16, 7)]
                  ELSE prev.r[BitAnd(Operand(1), 7)],
         b    |-> IF rr THEN prev.r[BitAnd(Operand(1), 7)]
                  ELSE Operand(2) + 256 * Operand(3),
         sign |-> 32768]

Logic == IF arch = "micro8" THEN M8_Logic ELSE M16_Logic

\* the last step executed AND, OR, XOR, TEST or NOT
LogicStep ==
    arch \in {"micro8", "micro16"} /\ Executed /\ Logic.kind # "none"

\* the result of a logic instruction, bit by bit
RECURSIVE Bitwise(_, _, _, _)
Bitwise(kind, a, b, width) ==
    IF width = 0 THEN 0
    ELSE (CASE kind \in {"and", "test"} -> (a % 2) * (b % 2)
            [] kind = "or" -> IF a % 2 = 1 \/ b % 2 = 1 THEN 1 ELSE 0
            [] kind = "xor" -> IF a % 2 # b % 2 THEN 1 ELSE 0
            [] kind = "not" -> 1 - (a % 2))
         + 2 * Bitwise(kind, a \div 2, b \div 2, width - 1)

LogicResult(x) ==
    Bitwise(x.kind, x.a, x.b, IF x.sign = 128 THEN 8 ELSE 16)

\* Zero and Sign follow the result, Carry and Overflow are clear
LogicFlags(x) ==
    /\ FlagAfter("Z") <=> LogicResult(x) = 0
    /\ FlagAfter("S") <=> LogicResult(x) >= x.sign
    /\ ~FlagAfter("C")
    /\ ~FlagAfter("O")

\* C11 as stated: each of AND, OR, XOR, TEST and NOT on the 8- and 16-bit
\* CPUs sets Zero and Sign from its result and leaves Carry and Overflow
\* clear, whatever the flags were before.
C11_LogicSetsZSClearsCO == LogicStep => LogicFlags(Logic)

\* C11 amended: AND, OR, XOR, TEST on both CPUs and NOT on the 8-bit CPU
\* set Zero and Sign from the result and clear Carry and Overflow; NOT on
\* the 16-bit CPU complements the register and leaves every flag as it was.
C11_LogicFlagsButNot16 ==
    LogicStep =>
        IF arch = "micro16" /\ Logic.kind = "not"
        THEN /\ cpu.flags = prev.flags
             /\ cpu.r[BitAnd(Operand(1), 7)] = LogicResult(Logic)
        ELSE LogicFlags(Logic)

\* a logic instruction with a zero result that found Carry and Overflow
\* set, and a 16-bit NOT that found them set
C11_Witness ==
    /\ LogicStep
    /\ FlagBefore("C") /\ FlagBefore("O") /\ ~FlagBefore("Z")
    /\ \/ Logic.kind = "and" /\ LogicResult(Logic) = 0 /\ FlagAfter("Z")
       \/ arch = "micro16" /\ Logic.kind = "not" /\ FlagAfter("C")

\* the flags of a CPU, whichever it is
FlagsOf(c) == IF arch = "micro4" THEN m4_flags(c) ELSE c.flags

\* the opcode nibble of the Micro4 instruction the last step executed
M4_Opcode == BitAnd(cpu.ir \div 16, M4_NIBBLE_MASK)

\* the last step executed a data-movement instruction: LDA, STA, LDI on the
\* 4-bit CPU, LDI, LD, LDZ, ST, STZ, MOV on the 8-bit CPU, MOV, LD, ST on
\* the 16-bit CPU
MoveStep ==
    /\ op.name = "step" /\ Executes(arch, prev) /\ mid = prev /\ Runs(cpu)
    /\ CASE arch = "micro4" ->
               /\ prev.pc < M4_MEM_SIZE - 1
               /\ M4_Opcode \in {M4_OP_LDA, M4_OP_STA, M4_OP_LDI}
         [] arch = "micro8" ->
               \/ cpu.ir \in M8_OP_LDI_BASE .. (M8_OP_STZ_BASE + 7)
               \/ cpu.ir = M8_OP_MOV_RR
         [] arch = "micro16" ->
               cpu.ir \in {M16_OP_MOV_RR, M16_OP_MOV_RI, M16_OP_LD, M16_OP_ST}

\* C12 as stated: no data-movement instruction changes any flag, Zero
\* included, on any of the three CPUs.
C12_MovesKeepFlags == MoveStep => FlagsOf(cpu) = FlagsOf(prev)

\* C12 amended: the data-movement instructions of the 8- and 16-bit CPUs
\* and STA of the 4-bit CPU change no flag; LDA and LDI of the 4-bit CPU set
\* Zero iff the value loaded into the accumulator is 0.
C12_MovesKeepFlagsButLoad4 ==
    MoveStep =>
        IF arch = "micro4" /\ M4_Opcode \in {M4_OP_LDA, M4_OP_LDI}
        THEN m4_flags(cpu).Z <=> cpu.a = 0
        ELSE FlagsOf(cpu) = FlagsOf(prev)

\* a 4-bit STA of a non-zero accumulator, a 4-bit load of 0 over a non-zero
\* accumulator and an 8-bit store that found every flag set
C12_Witness ==
    /\ MoveStep
    /\ \/ arch = "micro4" /\ M4_Opcode = M4_OP_STA /\ prev.a # 0
       \/ arch = "micro4" /\ M4_Opcode = M4_OP_LDA /\ prev.a # 0 /\ cpu.a = 0
       \/ arch = "micro8" /\ m8_in(cpu.ir, M8_OP_ST_BASE)
            /\ prev.flags = M8_FLAG_C + M8_FLAG_O + M8_FLAG_Z + M8_FLAG_S

\* the INC or DEC the last step executed, as the addition or subtraction
\* of 1 it stands for
IncDec ==
    LET inc == IF arch = "micro8" THEN m8_in(cpu.ir, M8_OP_INC_BASE)
               ELSE cpu.ir = M16_OP_INC
        reg == IF arch = "micro8" THEN BitAnd(cpu.ir, 7)
               ELSE BitAnd(Operand(1), 7)
    IN  [add |-> inc, sbc |-> FALSE, a |-> prev.r[reg], b |-> 1, cin |-> 0,
         uses |-> FALSE, sign |-> IF arch = "micro8" THEN 128 ELSE 32768,
         reg |-> reg]

IncDecStep ==
    /\ arch \in {"micro8", "micro16"} /\ Executed
    /\ IF arch = "micro8"
       THEN m8_in(cpu.ir, M8_OP_INC_BASE) \/ m8_in(cpu.ir, M8_OP_DEC_BASE)
       ELSE cpu.ir \in {M16_OP_INC, M16_OP_DEC}

\* C13: INC and DEC on the 8- and 16-bit CPUs leave Carry as it was for
\* every operand and set Zero, Sign and Overflow as an ADD or SUB of 1
\* would; the register holds the truncated result.
C13_IncDecKeepCarry ==
    IncDecStep =>
        /\ FlagAfter("C") <=> FlagBefore("C")
        /\ cpu.r[IncDec.reg] = AluResult(IncDec)
        /\ FlagAfter("Z") <=> AluResult(IncDec) = 0
        /\ FlagAfter("S") <=> AluResult(IncDec) >= IncDec.sign
        /\ FlagAfter("O") <=> SignTest(IncDec)

\* INC of the largest value with Carry clear before: the result is 0, Zero
\* is set and Carry is still clear
C13_Witness ==
    /\ IncDecStep /\ IncDec.add /\ IncDec.a = 2 * IncDec.sign - 1
    /\ ~FlagBefore("C") /\ ~FlagAfter("C") /\ FlagAfter("Z")
    /\ cpu.r[IncDec.reg] = 0

\* the last step executed ADD on the 4-bit CPU: the accumulator a and the
\* nibble b it added
M4_AddStep ==
    /\ arch = "micro4" /\ op.name = "step" /\ Runs(prev) /\ Runs(cpu)
    /\ prev.pc < M4_MEM_SIZE - 1
    /\ M4_Opcode = M4_OP_ADD

M4_Add == [add |-> TRUE, sbc |-> FALSE, a |-> prev.a, b |-> cpu.mdr,
           cin |-> 0, uses |-> FALSE, sign |-> 8]

\* C16: on the 4-bit CPU, for all pairs (a, b) of nibbles, adding b to the
\* accumulator a sets the Carry flag iff a + b exceeds 15 and the Overflow
\* flag iff the 4-bit two's-complement overflow test holds.
C16_Add4CarryOverflow ==
    M4_AddStep =>
        /\ "C" \in DOMAIN m4_flags(cpu)
        /\ "O" \in DOMAIN m4_flags(cpu)
        /\ m4_flags(cpu)["C"] <=> M4_Add.a + M4_Add.b > M4_NIBBLE_MASK
        /\ m4_flags(cpu)["O"] <=> SignTest(M4_Add)

(***************************************************************************)
(* SpecAsm: an assembler working through a source, one line at a time, in  *)
(* its two passes (asm_assemble).                                          *)
(***************************************************************************)
\* the lines sources are made of
AsmLines ==
    { Line("A", "ins", "HLT", <<>>),
      Line("B", "ins", "HLT", <<>>),
      Line("", "org", "", <<Num(16)>>),
      Line("", "org", "", <<Num(768)>>),
      Line("", "db", "", <<Num(1)>>),
      Line("", "dw", "", <<Sym("A")>>),
      Line("", "ds", "", <<Num(2)>>),
      Line("", "ins", "JMP", <<Sym("A")>>) }

\* every label an operand names is the label of an earlier line
BackwardOnly(src) ==
    \A i \in 1 .. Len(src) : \A k \in 1 .. Len(src[i].args) :
        src[i].args[k].k = "sym" =>
            \E j \in 1 .. i - 1 : src[j].label = src[i].args[k].name

Sources ==
    { src \in UNION { [1 .. n -> AsmLines] : n \in 1 .. MaxLines } :
        BackwardOnly(src) }

InitAsm ==
    /\ arch \in Archs
    /\ image = <<>>
    /\ cpu = cpu_init(arch)
    /\ prev = cpu
    /\ mid = cpu
    /\ op = FirstOp
    /\ ret = 0
    /\ \E src \in Sources :
          as = [st |-> asm_init(arch), src |-> src, pass |-> "pass1",
                ln |-> 1, reached |-> NoLabels]

\* one iteration of the loop of a pass: process_line on the next line.  In
\* pass 2 reached records the address counter at each labelled line.
AsmLine ==
    /\ as.pass \in {"pass1", "pass2"}
    /\ as.ln <= Len(as.src)
    /\ LET line == as.src[as.ln]
           r    == process_line(arch, as.st, line, as.pass = "pass2")
       IN  as' = IF ~r.ok
                 THEN [as EXCEPT !.st = [r.as EXCEPT !.error_line = as.ln],
                                 !.pass = "failed"]
                 ELSE [as EXCEPT
                         !.st = IF as.pass = "pass2"
                                THEN [r.as EXCEPT !.lines_processed = @ + 1]
                                ELSE r.as,
                         !.ln = @ + 1,
                         !.reached =
                             IF as.pass = "pass2" /\ line.label # ""
                             THEN [x \in DOMAIN @ \cup {line.label} |->
                                     IF x = line.label
                                     THEN as.st.current_addr ELSE @[x]]
                             ELSE @]
    /\ UNCHANGED <<arch, image, cpu, prev, mid, op, ret>>

\* the end of pass 1: "Reset for pass 2"
AsmSecondPass ==
    /\ as.pass = "pass1"
    /\ as.ln > Len(as.src)
    /\ as' = [as EXCEPT !.st = asm_reset_pass2(arch, @), !.pass = "pass2",
                        !.ln = 1]
    /\ UNCHANGED <<arch, image, cpu, prev, mid, op, ret>>

\* the end of pass 2: asm_assemble returns
AsmFinish ==
    /\ as.pass = "pass2"
    /\ as.ln > Len(as.src)
    /\ as' = [as EXCEPT !.pass = IF as.st.error THEN "failed" ELSE "done"]
    /\ UNCHANGED <<arch, image, cpu, prev, mid, op, ret>>

NextAsm == AsmLine \/ AsmSecondPass \/ AsmFinish

SpecAsm == InitAsm /\ [][NextAsm]_vars

\* C7: in all three assemblers, for a source whose label references are all
\* backward, the address counter at which pass 2 reaches a label's line
\* equals the address pass 1 recorded for the label.
C7_PassAddressesAgree ==
    as.pass \in {"pass2", "done"} =>
        \A l \in DOMAIN as.reached : as.reached[l] = as.st.labels[l]

\* the addresses of the ORG lines of the source, which all fit the address
\* counter of the assembler
OrgAddrs == { as.src[i].args[1].n : i \in { j \in 1 .. Len(as.src) :
                                              as.src[j].kind = "org" } }
OrgsFit == \A n \in OrgAddrs : n < (IF arch = "micro4" THEN 256 ELSE 65536)

\* a pass has just handled an ORG line
OrgHandled ==
    /\ as.pass \in {"pass1", "pass2"} /\ as.ln > 1
    /\ as.src[as.ln - 1].kind = "org"

\* C22: in all three assemblers ORG lowers the origin only when its address
\* is smaller, so that after an assembly the origin is the minimum of the
\* default origin and the addresses of all ORG lines, and every ORG sets
\* the address counter to its argument.
C22_OriginIsMinimum ==
    OrgsFit =>
        /\ as.pass = "done" =>
              \A n \in OrgAddrs \cup {asm_init(arch).origin} :
                  as.st.origin <= n
        /\ as.pass = "done" =>
              as.st.origin \in OrgAddrs \cup {asm_init(arch).origin}
        /\ OrgHandled => as.st.current_addr = as.src[as.ln - 1].args[1].n

(***************************************************************************)
(* SpecRel: the 8- and 16-bit assemblers working through sources with      *)
(* relative jumps, label offsets and undefined symbols; the output of a    *)
(* successful assembly is then loaded into the CPU and executed.           *)
(***************************************************************************)
\* the largest DS block between a relative jump and its target
MaxGap == 129

RelMnemonics(ar) ==
    IF ar = "micro8" THEN DOMAIN m8_rel8 ELSE DOMAIN m16_rel8

\* S: a relative jump over a block of g bytes to T
ForwardBranch(mn, g) ==
    << Line("S", "ins", mn, <<Sym("T")>>),
       Line("", "ds", "", <<Num(g)>>),
       Line("T", "ins", "HLT", <<>>) >>

\* a JMP to S, where a relative jump goes back over a block of g bytes to T
BackwardBranch(mn, g) ==
    << Line("", "ins", "JMP", <<Sym("S")>>),
       Line("T", "ds", "", <<Num(g)>>),
       Line("S", "ins", mn, <<Sym("T")>>) >>

\* the operands T+N and T-N
LabelOffsets ==
    { Plus("T", n) : n \in (0 .. Near) \cup {768} }
        \cup { Minus("T", n) : n \in (0 .. Near) \cup {768} }

\* T+N and T-N as the value of a DW and as the address of a JMP, with T at
\* the origin
OffsetSources ==
    { << Line("T", "ins", "HLT", <<>>), Line("", "dw", "", <<arg>>) >> :
        arg \in LabelOffsets }
      \cup
    { << Line("T", "ins", "HLT", <<>>), Line("", "ins", "JMP", <<arg>>) >> :
        arg \in LabelOffsets }

\* a line naming the symbol U, which no line defines, between two HLT
UndefinedSources(ar) ==
    { << Line("T", "ins", "HLT", <<>>), line, Line("", "ins", "HLT", <<>>) >> :
        line \in { Line("", "db", "", <<Sym("U")>>),
                   Line("", "dw", "", <<Sym("U")>>),
                   Line("", "dw", "", <<Num(1), Plus("U", 1)>>),
                   Line("", "ins", "JMP", <<Sym("U")>>) }
                 \cup { Line("", "ins", mn, <<Sym("U")>>) :
                          mn \in RelMnemonics(ar) } }

\* every gap for JR, the gaps next to 0 and to the limits of the range for
\* the conditional jumps and LOOP
RelGaps(mn) ==
    IF mn = "JR" THEN 0 .. MaxGap
    ELSE (0 .. Near) \cup ((MaxGap - 3 - Near) .. MaxGap)

RelSources(ar) ==
    UNION { { ForwardBranch(mn, g) : g \in RelGaps(mn) }
              \cup { BackwardBranch(mn, g) : g \in RelGaps(mn) } :
            mn \in RelMnemonics(ar) }
        \cup OffsetSources \cup UndefinedSources(ar)

InitRel ==
    /\ arch \in {"micro8", "micro16"}
    /\ image = <<>>
    /\ cpu = cpu_init(arch)
    /\ prev = cpu
    /\ mid = cpu
    /\ op = FirstOp
    /\ ret = 0
    /\ \E src \in RelSources(arch) :
          as = [st |-> asm_init(arch), src |-> src, pass |-> "pass1",
                ln |-> 1, reached |-> NoLabels]

\* the bytes the assembler wrote, from the origin to the highest address
OutputFromOrigin(a) ==
    [i \in 1 .. a.max_addr + 1 - a.origin |-> Rd(a.output, a.origin + i - 1)]

\* cpu_load_program: the output of a successful assembly goes into a fresh
\* CPU at the addresses it was assembled for
LoadOutput ==
    /\ as.pass = "done"
    /\ image' = << <<as.st.origin, OutputFromOrigin(as.st)>> >>
    /\ cpu' = Loaded(arch, cpu_init(arch), image')
    /\ prev' = cpu'
    /\ mid' = cpu'
    /\ op' = FirstOp
    /\ ret' = 0
    /\ as' = [as EXCEPT !.pass = "idle"]
    /\ UNCHANGED arch

NextRel == AsmLine \/ AsmSecondPass \/ AsmFinish \/ LoadOutput \/ Step

SpecRel == InitRel /\ [][NextRel]_vars

\* pass 2 has just handled a line: it went through (the line before ln) or
\* it failed (the line at ln; no line of these sources fails in pass 1)
HandledInPass2 ==
    \/ as.pass = "pass2" /\ as.ln > 1
    \/ as.pass = "failed" /\ as.ln <= Len(as.src)
          /\ as.st.lines_processed = as.ln - 1

LastLine == as.src[IF as.pass = "failed" THEN as.ln ELSE as.ln - 1]

\* the line has a first operand that names a defined symbol
NamesDefined(line) ==
    /\ line.args # <<>>
    /\ line.args[1].k # "num"
    /\ line.args[1].name \in DOMAIN as.st.labels

\* pass 2 has just handled a relative jump to a defined label
RelHandled ==
    /\ HandledInPass2
    /\ LastLine.kind = "ins" /\ LastLine.mn \in RelMnemonics(arch)
    /\ NamesDefined(LastLine)

\* the address of the relative jump just handled and the offset of its
\* target from the address after its two bytes
RelAddr ==
    IF as.pass = "failed" THEN as.st.current_addr ELSE as.st.current_addr - 2
RelOffset == as.st.labels[LastLine.args[1].name] - (RelAddr + 2)
RelOpcode ==
    IF arch = "micro8" THEN m8_rel8[LastLine.mn] ELSE m16_rel8[LastLine.mn]

\* C17: in the 8- and 16-bit assemblers a relative jump assembles iff the
\* offset of its target from the address after its two bytes lies in
\* -128 .. 127; it then emits the opcode and the offset byte, and otherwise
\* assembly fails at that line with the out-of-range diagnostic naming the
\* offset.
C17_RelativeRange ==
    RelHandled =>
        /\ as.pass = "pass2" <=> RelOffset \in -128 .. 127
        /\ as.pass = "pass2" =>
              /\ Rd(as.st.output, RelAddr) = RelOpcode
              /\ Rd(as.st.output, RelAddr + 1) = RelOffset % 256
              /\ ~as.st.error
        /\ as.pass = "failed" =>
              /\ as.st.error
              /\ as.st.error_msg =
                     "Relative jump out of range: " \o ToString(RelOffset)
              /\ as.st.error_line = as.ln

\* a relative jump with the offset 128, refused with the diagnostic
C17_Witness ==
    /\ RelHandled /\ RelOffset = 128 /\ as.pass = "failed"
    /\ as.st.error_msg = "Relative jump out of range: 128"

\* the last step executed the relative jump at S and took it
BranchTaken ==
    /\ as.pass = "idle" /\ Executed
    /\ "S" \in DOMAIN as.st.labels /\ prev.pc = as.st.labels["S"]
    /\ IF arch = "micro8"
       THEN \/ cpu.ir = M8_OP_JR
            \/ cpu.ir = M8_OP_JRZ /\ HasBits(prev.flags, M8_FLAG_Z)
            \/ cpu.ir = M8_OP_JRNZ /\ ~HasBits(prev.flags, M8_FLAG_Z)
       ELSE \/ cpu.ir = M16_OP_JR
            \/ cpu.ir = M16_OP_LOOP /\ prev.r[M16_REG_R2] # 1

\* C18: a relative jump that assembled, executed on the matching CPU and
\* taken, sets PC to the address of its target label.
C18_BranchLandsOnTarget == BranchTaken => cpu.pc = as.st.labels["T"]

\* a taken jump 128 bytes back from the address after it
C18_Witness ==
    /\ BranchTaken
    /\ as.st.labels["T"] - (as.st.labels["S"] + 2) = -128
    /\ cpu.pc = as.st.labels["T"]

\* pass 2 has just emitted the word of a DW or a JMP whose operand is a
\* defined label with an offset
OffsetHandled ==
    /\ as.pass = "pass2" /\ as.ln > 1
    /\ NamesDefined(LastLine)
    /\ LastLine.args[1].k \in {"plus", "minus"}

\* C19: in the 8- and 16-bit assemblers an operand LABEL+N resolves to the
\* value of the label plus N and an operand LABEL-N to the value of the
\* label minus N, modulo 2^16: the word a DW or a JMP emits for it.
C19_LabelOffset ==
    OffsetHandled =>
        Word(as.st.output, as.st.current_addr - 2) =
            (as.st.labels[LastLine.args[1].name]
               + (IF LastLine.args[1].k = "plus" THEN LastLine.args[1].n
                  ELSE -LastLine.args[1].n)) % 65536

\* line i names, in some operand, a symbol that no line defines
NamesUndefined(i) ==
    \E k \in 1 .. Len(as.src[i].args) :
        /\ as.src[i].args[k].k # "num"
        /\ \A j \in 1 .. Len(as.src) : as.src[j].label # as.src[i].args[k].name

\* pass 2 has got to line i
ReachedInPass2(i) ==
    \/ as.pass = "pass2" /\ i < as.ln
    \/ as.pass = "failed" /\ i <= as.ln
    \/ as.pass \in {"done", "idle"}

\* C20: an operand that cannot be resolved in pass 2, in an instruction or
\* in a DB or DW directive, makes the assembly abort at its line: no later
\* line is processed and the line is recorded.
C20_UnresolvedAborts ==
    \A i \in 1 .. Len(as.src) :
        NamesUndefined(i) /\ ReachedInPass2(i) =>
            /\ as.pass = "failed"
            /\ as.ln = i
            /\ as.st.lines_processed = i - 1
            /\ as.st.error_line = i

(***************************************************************************)
(* SpecSym: the assemblers working through source texts that define names  *)
(* twice, refer to labels defined further down, place words with DW, and   *)
(* have empty lines among the lines that fail.                             *)
(***************************************************************************)
\* the most empty lines in front of a line of a text
MaxPad == 1

\* a line of the text with no character in it
EmptyLine == Line("", "empty", "", <<>>)

\* strtok(src, "\n"): the lines of the text that are not empty, in order
strtok(text) == SelectSeq(text, LAMBDA l : l.kind # "empty")

\* the definition of a name, as a label or as an equate
Def(kind, name) ==
    IF kind = "label" THEN Line(name, "ins", "HLT", <<>>)
    ELSE Line(name, "equ", "", <<Num(5)>>)

DefKinds(ar) == IF ar = "micro4" THEN {"label"} ELSE {"label", "equ"}

\* two definitions with a line between them
DupSources(ar) ==
    { << Def(k1, n1), Line("", "ins", "HLT", <<>>), Def(k2, n2) >> :
        k1 \in DefKinds(ar), n1 \in {"A", "a"},
        k2 \in DefKinds(ar), n2 \in {"A", "a", "B"} }

\* g data cells: nibbles on Micro4, bytes elsewhere
Cells(g) == Line("", "db", "", [i \in 1 .. g |-> Num(1)])

\* an address operand that names T, g cells, and the label T
ForwardSources(ar) ==
    { << Line("", "ins", mn, <<Sym(t)>>), Cells(g),
         Line("T", "ins", "HLT", <<>>) >> :
        mn \in IF ar = "micro4" THEN {"LDA", "STA", "ADD", "SUB", "JMP", "JZ"}
               ELSE {"JMP"},
        t \in {"T", "t"}, g \in 0 .. Near }
      \cup
    IF ar = "micro4" THEN {}
    ELSE { << Line("", "dw", "", <<Sym(t)>>), Cells(g),
              Line("T", "ins", "HLT", <<>>) >> :
             t \in {"T", "t"}, g \in 0 .. Near }

\* the words DW places and the addresses it places them at
DwValues == {0, 1, 255, 256, 4660, 32767, 32768, 65534, 65535}
DwAddrs == {0, 512, 65534}

DwSources(ar) ==
    IF ar = "micro4" THEN {}
    ELSE { << Line("", "org", "", <<Num(addr)>>),
              Line("", "dw", "", <<Num(v)>>) >> :
             addr \in DwAddrs, v \in DwValues }

\* sources with a line that fails: an undefined name, a name defined twice
FailingSources(ar) ==
    { << Line("T", "ins", "HLT", <<>>), Line("", "ins", "JMP", <<Sym("U")>>),
         Line("", "ins", "HLT", <<>>) >>,
      << Line("A", "ins", "HLT", <<>>), Line("A", "ins", "HLT", <<>>) >>,
      << Line("", "ins", "JMP", <<Sym("U")>>) >> }
      \cup
    IF ar = "micro4" THEN {}
    ELSE { << Line("T", "ins", "HLT", <<>>), Line("", "db", "", <<Sym("U")>>),
              Line("", "ins", "HLT", <<>>) >> }

\* the text of a source with pad[i] empty lines in front of its line i
RECURSIVE Padded(_, _, _)
Padded(src, pad, i) ==
    IF i > Len(src) THEN <<>>
    ELSE [k \in 1 .. pad[i] |-> EmptyLine] \o <<src[i]>>
           \o Padded(src, pad, i + 1)

Texts(ar) ==
    DupSources(ar) \cup ForwardSources(ar) \cup DwSources(ar)
      \cup UNION { { Padded(src, pad, 1) :
                       pad \in [1 .. Len(src) -> 0 .. MaxPad] } :
                   src \in FailingSources(ar) }

\* asm_assemble up to its first loop: the text is cut into lines
InitSym ==
    /\ arch \in Archs
    /\ image = <<>>
    /\ cpu = cpu_init(arch)
    /\ prev = cpu
    /\ mid = cpu
    /\ op = FirstOp
    /\ ret = 0
    /\ \E text \in Texts(arch) :
          as = [st |-> asm_init(arch), src |-> strtok(text), pass |-> "pass1",
                ln |-> 1, reached |-> NoLabels, text |-> text]

SpecSym == InitSym /\ [][NextAsm]_vars

\* the position in the text of line k of the lines strtok returned
PhysicalLine(k) ==
    CHOOSE i \in 1 .. Len(as.text) :
        /\ as.text[i].kind # "empty"
        /\ Cardinality({ j \in 1 .. i : as.text[j].kind # "empty" }) = k

\* the line assembly failed for: the line the loop stopped at or, when the
\* loop went through, the first line that names an undefined symbol
Offending ==
    IF as.ln <= Len(as.src) THEN as.ln
    ELSE CHOOSE i \in 1 .. Len(as.src) :
            NamesUndefined(i) /\ \A j \in 1 .. i - 1 : ~NamesUndefined(j)

\* C21: whenever asm_assemble fails, the recorded error line is at least 1
\* and is the position of the first offending line among all the lines of
\* the text, the empty lines in front of it counted.
C21_ErrorLineIsPhysical ==
    as.pass = "failed" =>
        /\ as.st.error_line >= 1
        /\ as.st.error_line = PhysicalLine(Offending)

\* the label and the equate table of an assembler; Micro4 has no equates
LabelNames == DOMAIN as.st.labels
EquateNames == IF arch = "micro4" THEN {} ELSE DOMAIN as.st.equates

SameName(x, y) == str_upper(x) = str_upper(y)

\* line j defines the name an earlier line defines, in some letter case
Redefines(j) ==
    /\ as.src[j].label # ""
    /\ \E i \in 1 .. j - 1 :
          as.src[i].label # "" /\ SameName(as.src[i].label, as.src[j].label)

\* C23: labels and equates share one case-insensitive namespace.  After a
\* successful pass 1 no two entries of the label and equate tables have
\* names equal but for case, and a source that defines a name twice (as
\* labels, as equates, or as one of each in either order) fails in pass 1
\* at the second definition with a message naming that symbol.
C23_OneNamespace ==
    /\ as.pass \in {"pass2", "done"} =>
          /\ \A x, y \in LabelNames \cup EquateNames : SameName(x, y) => x = y
          /\ LabelNames \cap EquateNames = {}
    /\ (\E j \in 1 .. Len(as.src) : Redefines(j)) =>
          /\ as.pass \in {"pass1", "failed"}
          /\ as.pass = "failed" =>
                /\ Redefines(as.ln)
                /\ as.st.lines_processed = 0
                /\ as.st.error_line = as.ln
                /\ as.st.error_msg \in
                      { "Duplicate symbol: " \o as.src[as.ln].label,
                        "Duplicate label: " \o as.src[as.ln].label }

\* the label A, then the equate a: refused with the message naming a
C23_Witness ==
    /\ as.pass = "failed" /\ as.ln = 3
    /\ as.src[1] = Def("label", "A") /\ as.src[3] = Def("equ", "a")
    /\ as.st.error_msg = "Duplicate symbol: a"
    /\ LabelNames = {"A"} /\ EquateNames = {}

\* pass 2 has just handled the line ORG addr / DW v of a source
DwHandled ==
    /\ as.pass = "pass2" /\ as.ln = 3
    /\ as.src[1].kind = "org" /\ as.src[2].kind = "dw"
    /\ as.src[2].args[1].k = "num"

DwAddr == as.src[1].args[1].n
DwValue == as.src[2].args[1].n

\* C24: for every 16-bit value v, 0x0000 and 0xFFFF included, a DW of v at
\* the address A writes v mod 256 at A and v div 256 at A + 1 of the output
\* image, so that the little-endian word read at A is v.
C24_DwRoundTrip ==
    DwHandled =>
        /\ Rd(as.st.output, DwAddr) = DwValue % 256
        /\ Rd(as.st.output, DwAddr + 1) = DwValue \div 256
        /\ Word(as.st.output, DwAddr) = DwValue
        /\ as.st.bytes_generated = 2

\* the word 0xFFFF placed at 0xFFFE and the word 0x0000 placed at 0
C24_Witness ==
    /\ DwHandled
    /\ \/ DwValue = 65535 /\ DwAddr = 65534
             /\ Word(as.st.output, 65534) = 65535 /\ as.st.max_addr = 65535
       \/ DwValue = 0 /\ DwAddr = 0 /\ arch = "micro16"
             /\ as.st.bytes_generated = 2 /\ Word(as.st.output, 0) = 0

\* line i has an address operand naming a label that only a later line
\* defines
ForwardRef(i) ==
    /\ as.src[i].kind \in {"ins", "dw"}
    /\ as.src[i].args # <<>> /\ as.src[i].args[1].k = "sym"
    /\ \E j \in i + 1 .. Len(as.src) :
          SameName(as.src[j].label, as.src[i].args[1].name)
    /\ \A j \in 1 .. i :
          ~SameName(as.src[j].label, as.src[i].args[1].name)

\* the address the label table holds for the name the operand of line i
\* is written with
TargetOf(i) ==
    as.st.labels[CHOOSE x \in LabelNames : SameName(x, as.src[i].args[1].name)]

\* the operand that ends at the address counter: two nibbles on Micro4, a
\* little-endian word elsewhere
OperandEmitted ==
    IF arch = "micro4"
    THEN Rd(as.st.output, as.st.current_addr - 2) * 16
           + Rd(as.st.output, as.st.current_addr - 1)
    ELSE Word(as.st.output, as.st.current_addr - 2)

\* C25: a reference to a label defined later in the source never makes
\* pass 1 fail (nor pass 2), and the operand pass 2 emits for it is the
\* address of the label, not the 0 that stood for it in pass 1.
C25_ForwardReference ==
    /\ as.pass = "failed" /\ as.ln <= Len(as.src) => ~ForwardRef(as.ln)
    /\ as.pass = "pass2" /\ as.ln > 1 /\ ForwardRef(as.ln - 1) =>
          /\ OperandEmitted = TargetOf(as.ln - 1)
          /\ ~as.st.error

\* the operand t, for the label T a cell further down, assembled
C25_Witness ==
    /\ as.pass = "pass2" /\ as.ln = 2 /\ ForwardRef(1)
    /\ as.src[1].args[1].name = "t" /\ as.src[2].args # <<>>
    /\ OperandEmitted = as.st.labels["T"] /\ as.st.labels["T"] > 0

(***************************************************************************)
(* SpecReg: parse_register of the 8- and 16-bit assemblers, applied to the *)
(* text of an operand.  A text is a sequence of characters; the character  *)
(* after its last one is the terminating NUL.                              *)
(***************************************************************************)
\* the longest operand text
MaxLen == 3

NUL == "\\0"
At(s, k) == IF k < Len(s) THEN s[k + 1] ELSE NUL

\* <ctype.h> on the characters of the model
isspace(c) == c = " "
isalnum(c) == c \in {"A", "a", "X", "x", "R", "r", "1", "8"}
toupper(c) ==
    CASE c = "a" -> "A" [] c = "x" -> "X" [] c = "r" -> "R" [] OTHER -> c

\* the characters operand texts are written with
Chars == {"A", "a", "X", "R", "r", "1", "8", "_", " ", ","}

\* the text from its character k on, k counted from 0
From(s, k) == SubSeq(s, k + 1, Len(s))

\* the loop that skips white space: the number of characters it skips
RECURSIVE skipped(_)
skipped(s) == IF isspace(At(s, 0)) THEN 1 + skipped(From(s, 1)) ELSE 0

starts_with_ci(str, prefix) ==
    \A k \in 0 .. Len(prefix) - 1 : toupper(At(str, k)) = toupper(prefix[k + 1])

\* R0 .. R7: the digit after the R
IsRn(s) == At(s, 0) \in {"R", "r"} /\ At(s, 1) \in { ToString(d) : d \in 0 .. 7 }
Rn(s) == CHOOSE d \in 0 .. 7 : ToString(d) = At(s, 1)

\* the one-letter aliases of Micro8 and the two-letter aliases of Micro16,
\* in the order the code tries them, with the number each returns
m8_aliases ==
    << <<"A", 0>>, <<"B", 1>>, <<"C", 2>>, <<"D", 3>>, <<"E", 4>>, <<"H", 5>>,
       <<"L", 6>> >>
m16_aliases ==
    << << <<"A", "X">>, 0>>, << <<"B", "X">>, 1>>, << <<"C", "X">>, 2>>,
       << <<"D", "X">>, 3>>, << <<"S", "I">>, 4>>, << <<"D", "I">>, 5>>,
       << <<"B", "P">>, 6>>, << <<"S", "P">>, -2>> >>

\* parse_register: the register number (-1 when the text names none) and
\* the number of characters taken
m8_parse_register(text) ==
    LET n == skipped(text)
        s == From(text, n)
        hits == { i \in 1 .. Len(m8_aliases) :
                    /\ toupper(At(s, 0)) = m8_aliases[i][1]
                    /\ ~isalnum(At(s, 1)) }
    IN  IF IsRn(s) THEN [reg |-> Rn(s), len |-> n + 2]
        ELSE IF hits # {}
        THEN [reg |-> m8_aliases[CHOOSE i \in hits :
                                   \A j \in hits : i <= j][2],
              len |-> n + 1]
        ELSE [reg |-> -1, len |-> n]

m16_parse_register(text) ==
    LET n == skipped(text)
        s == From(text, n)
        hits == { i \in 1 .. Len(m16_aliases) :
                    /\ starts_with_ci(s, m16_aliases[i][1])
                    /\ ~isalnum(At(s, 2)) }
    IN  IF IsRn(s) THEN [reg |-> Rn(s), len |-> n + 2]
        ELSE IF hits # {}
        THEN [reg |-> m16_aliases[CHOOSE i \in hits :
                                    \A j \in hits : i <= j][2],
              len |-> n + 2]
        ELSE [reg |-> -1, len |-> n]

parse_register(ar, text) ==
    IF ar = "micro8" THEN m8_parse_register(text) ELSE m16_parse_register(text)

OperandTexts == UNION { [1 .. n -> Chars] : n \in 0 .. MaxLen }

InitReg ==
    /\ arch \in {"micro8", "micro16"}
    /\ image = <<>>
    /\ cpu = cpu_init(arch)
    /\ prev = cpu
    /\ mid = cpu
    /\ op = FirstOp
    /\ ret = 0
    /\ \E text \in OperandTexts :
          as = [pass |-> "lex", text |-> text, reg |-> -1, len |-> 0]

\* a call of parse_register on the text
ParseRegister ==
    /\ as.pass = "lex"
    /\ LET r == parse_register(arch, as.text)
       IN  as' = [as EXCEPT !.pass = "lexed", !.reg = r.reg, !.len = r.len]
    /\ UNCHANGED <<arch, image, cpu, prev, mid, op, ret>>

SpecReg == InitReg /\ [][ParseRegister]_vars

\* C26: parse_register of the 8- and 16-bit assemblers accepts a register
\* name (R0 .. R7 or an alias) only when the character after the name is not
\* alphanumeric: AX1 and R1X are not parsed as a register.
C26_RegisterNameEnds ==
    as.pass = "lexed" /\ as.reg # -1 => ~isalnum(At(as.text, as.len))

(***************************************************************************)
(* SpecVec: the Micro16 CPU dispatching each of the 256 vectors.           *)
(***************************************************************************)
\* the whole interrupt vector table, entry k holding PC = 0x0400 + 2k and
\* CS = 255 - k
M16_VectorTable ==
    <<M16_IVT_BASE,
      [i \in 1 .. 1024 |->
         LET k == (i - 1) \div 4
         IN  CASE (i - 1) % 4 = 0 -> (2 * k) % 256
               [] (i - 1) % 4 = 1 -> 4 + (2 * k) \div 256
               [] (i - 1) % 4 = 2 -> 255 - k
               [] OTHER -> 0]>>

\* the flag words POPF loads before the dispatch
M16_VectorFlags ==
    {0, M16_FLAG_T, M16_FLAG_C + M16_FLAG_S + M16_FLAG_D + M16_FLAG_I,
     255, 65535}

\* the table, the word POPF pops, and POPF / the instructions / HLT at the
\* default 0000:0100, which lies over table entry 64
M16_VectorProgram(fl, ins) ==
    << M16_VectorTable,
       <<seg_offset_to_phys(M16_DEFAULT_SS, M16_DEFAULT_SP),
         <<fl % 256, fl \div 256>>>>,
       <<M16_DEFAULT_PC, <<M16_OP_POPF>> \o ins \o <<M16_OP_HLT>> >> >>

\* POPF / INT v / HLT
M16_IntPrograms ==
    { M16_VectorProgram(fl, <<M16_OP_INT, v>>) :
        fl \in M16_VectorFlags, v \in 0 .. 255 }

\* POPF / NOP / HLT, run with a device's request of vector v pending
M16_IrqPrograms ==
    { M16_VectorProgram(fl, <<M16_OP_NOP>>) : fl \in M16_VectorFlags }

InitVec ==
    /\ arch = "micro16"
    /\ \/ /\ image \in M16_IntPrograms
          /\ cpu = Loaded(arch, cpu_init(arch), image)
       \/ /\ image \in M16_IrqPrograms
          /\ \E vector \in 0 .. 255 :
                cpu = cpu_request_interrupt(
                          arch, Loaded(arch, cpu_init(arch), image), vector)
    /\ prev = cpu
    /\ mid = cpu
    /\ op = FirstOp
    /\ ret = 0
    /\ as = AsmIdle

SpecVec == InitVec /\ [][Step]_vars

\* the last step dispatched the pending request before its fetch
IrqDispatched ==
    /\ op.name = "step" /\ Executes(arch, prev)
    /\ prev.int_pending /\ IntEnabled(arch, prev)

\* the last step fetched and executed INT imm8
IntExecuted == op.name = "step" /\ Executes(arch, prev) /\ cpu.ir = M16_OP_INT

\* the operand byte of the INT the last step executed
IntOperand ==
    Rd(mid.memory,
       seg_offset_to_phys(mid.seg[M16_SEG_CS], (mid.pc + 1) % 65536))

\* c is b after the dispatch of vector v
Vectored(b, c, v) ==
    /\ ~HasBits(c.flags, M16_FLAG_I)
    /\ ~HasBits(c.flags, M16_FLAG_T)
    /\ \A fl \in {M16_FLAG_C, M16_FLAG_Z, M16_FLAG_S, M16_FLAG_O,
                  M16_FLAG_D, M16_FLAG_P} :
          HasBits(c.flags, fl) = HasBits(b.flags, fl)
    /\ c.flags = b.flags - BitAnd(b.flags, M16_FLAG_I + M16_FLAG_T)
    /\ c.pc = Word(c.memory, 4 * v)
    /\ c.seg[M16_SEG_CS] = Word(c.memory, 4 * v + 2)

\* C27: the dispatch of vector v on the 16-bit CPU, for every v in 0 .. 255,
\* by a pending request or by INT v, clears the I and T flags, leaves every
\* other flag as it was, and sets PC to the little-endian word at physical
\* address 4v and CS to the little-endian word at 4v + 2.
C27_VectorDispatch ==
    /\ IrqDispatched => Vectored(prev, mid, prev.int_vector)
    /\ IntExecuted => Vectored(mid, cpu, IntOperand)

\* INT 255 executed with I, T and every other flag set: the handler of the
\* last table entry, 0000:05FE, is entered with I and T clear
C27_Witness ==
    /\ IntExecuted /\ IntOperand = 255
    /\ mid.flags = 255
    /\ cpu.flags = 255 - M16_FLAG_I - M16_FLAG_T
    /\ cpu.pc = 1534 /\ cpu.seg[M16_SEG_CS] = 0

(***************************************************************************)
(* SpecUnk: each CPU fetching every opcode value its decoder has no case   *)
(* for.                                                                    *)
(***************************************************************************)
M4_UnknownOpcodes == (M4_OP_LDI + 1) .. M4_NIBBLE_MASK

M16_UnknownOpcodes == (0 .. 255) \ M16_KnownOpcodes

\* LDI 3 / the opcode, and JMP 0xFE with the opcode in the last two nibbles
M4_UnkPrograms ==
    { << <<0, <<M4_OP_LDI, 3, o, n>>>> >> :
        o \in M4_UnknownOpcodes, n \in {0, M4_NIBBLE_MASK} }
      \cup
    { << <<0, <<M4_OP_JMP, 0, M4_NIBBLE_MASK, M4_NIBBLE_MASK - 1>>>>,
         <<M4_MEM_SIZE - 2, <<o, 0>>>> >> : o \in M4_UnknownOpcodes }

\* NOP / the opcode, EI / NOP with the opcode at the interrupt handler, and
\* JMP 0xFFFF with the opcode in the last byte of the memory
M8_UnkPrograms ==
    { << <<M8_DEFAULT_PC, <<M8_OP_NOP, o>>>> >> : o \in M8_UnknownOpcodes }
      \cup
    { << <<M8_DEFAULT_PC, <<M8_OP_EI, M8_OP_NOP, M8_OP_HLT>>>>,
         <<M8_INT_VECTOR, <<o>>>> >> : o \in M8_UnknownOpcodes }
      \cup
    { << <<M8_DEFAULT_PC, <<M8_OP_JMP, 255, 255>>>>,
         <<M8_MEM_SIZE - 1, <<o>>>> >> : o \in M8_UnknownOpcodes }

\* NOP / the opcode, STI / NOP with the opcode at the handler of vector 1,
\* and JMP 0xFFFF with the opcode at 0000:FFFF
M16_UnkPrograms ==
    { << <<M16_DEFAULT_PC, <<M16_OP_NOP, o>>>> >> : o \in M16_UnknownOpcodes }
      \cup
    { << <<M16_DEFAULT_PC, <<M16_OP_STI, M16_OP_NOP, M16_OP_HLT>>>> >>
        \o M16_Vectors \o << <<528, <<o>>>> >> : o \in M16_UnknownOpcodes }
      \cup
    { << <<M16_DEFAULT_PC, <<M16_OP_JMP, 255, 255>>>>,
         <<65535, <<o>>>> >> : o \in M16_UnknownOpcodes }

UnkPrograms(ar) ==
    CASE ar = "micro4" -> M4_UnkPrograms
      [] ar = "micro8" -> M8_UnkPrograms
      [] ar = "micro16" -> M16_UnkPrograms

InitUnk ==
    /\ arch \in Archs
    /\ image \in UnkPrograms(arch)
    /\ cpu = Loaded(arch, cpu_init(arch), image)
    /\ prev = cpu
    /\ mid = cpu
    /\ op = FirstOp
    /\ ret = 0
    /\ as = AsmIdle

SpecUnk == InitUnk /\ [][Next]_vars

\* the opcode in the instruction register: the high nibble on Micro4
IrOpcode(ar, c) ==
    IF ar = "micro4" THEN BitAnd(c.ir \div 16, M4_NIBBLE_MASK) ELSE c.ir

UnknownOpcodes(ar) ==
    CASE ar = "micro4" -> M4_UnknownOpcodes
      [] ar = "micro8" -> M8_UnknownOpcodes
      [] ar = "micro16" -> M16_UnknownOpcodes

\* the last step fetched an opcode that the decoder has no case for
UnknownFetched ==
    /\ op.name = "step" /\ Executes(arch, prev)
    /\ arch = "micro4" => prev.pc < M4_MEM_SIZE - 1
    /\ IrOpcode(arch, cpu) \in UnknownOpcodes(arch)

\* C28: in all three CPUs a step that fetches an opcode the decoder does
\* not recognise leaves the CPU Errored and Halted in that same step, with a
\* message that holds the opcode and the address it was fetched from, the
\* PC before the fetch.
C28_UnknownOpcode ==
    UnknownFetched =>
        /\ cpu.error /\ cpu.halted
        /\ cpu.error_msg.text = "Unknown opcode"
        /\ cpu.error_msg.x = IrOpcode(arch, cpu)
        /\ cpu.error_msg.y = mid.pc

(***************************************************************************)
(* SpecRep: the Micro16 CPU executing REP with each string operation.      *)
(***************************************************************************)
\* the largest count loaded into CX
MaxCount == 3

\* sixteen bytes of source data from 0000:02F8, all different and not 0
M16_RepData == <<760, [i \in 1 .. 16 |-> 16 + i]>>

\* the word POPF pops, the data, and POPF / MOV CX,#n / MOV AX,#0xABCD /
\* MOV SI,#0x0300 / MOV DI,#0x0320 / REP next_op / HLT
M16_RepProgram(fl, n, next_op) ==
    << <<seg_offset_to_phys(M16_DEFAULT_SS, M16_DEFAULT_SP),
         <<fl % 256, fl \div 256>>>>,
       M16_RepData,
       <<M16_DEFAULT_PC,
         <<M16_OP_POPF, M16_OP_MOV_RI, M16_REG_R2, n, 0,
           M16_OP_MOV_RI, M16_REG_R0, 205, 171,
           M16_OP_MOV_RI, M16_REG_R4, 0, 3,
           M16_OP_MOV_RI, M16_REG_R5, 32, 3,
           M16_OP_REP, next_op, M16_OP_HLT>> >> >>
        \o M16_Vectors

M16_RepPrograms ==
    { M16_RepProgram(fl, n, next_op) :
        fl \in {0, M16_FLAG_D, M16_FLAG_I, M16_FLAG_D + M16_FLAG_I},
        n \in 0 .. MaxCount, next_op \in M16_RepOpcodes }

InitRep ==
    /\ arch = "micro16"
    /\ image \in M16_RepPrograms
    /\ cpu = Loaded(arch, cpu_init(arch), image)
    /\ prev = cpu
    /\ mid = cpu
    /\ op = FirstOp
    /\ ret = 0
    /\ as = AsmIdle

\* steps of the CPU and requests of a device
NextRep == Step \/ RequestInterrupt

SpecRep == InitRep /\ [][NextRep]_vars

\* the opcode that follows the REP prefix the last step fetched
RepOp ==
    Rd(mid.memory,
       seg_offset_to_phys(mid.seg[M16_SEG_CS], (mid.pc + 1) % 65536))

\* the last step fetched REP and one of the string operations REP repeats
RepExecuted ==
    /\ op.name = "step" /\ Executes(arch, prev)
    /\ cpu.ir = M16_OP_REP /\ RepOp \in M16_RepOpcodes

\* CX on entry, the size of one element, and the k-th index from start
RepCount == mid.r[M16_REG_R2]
RepSize == IF RepOp \in {M16_OP_MOVSW, M16_OP_STOSW, M16_OP_LODSW} THEN 2 ELSE 1
RepIndex(start, k) ==
    IF HasBits(mid.flags, M16_FLAG_D) THEN (start - k * RepSize) % 65536
    ELSE (start + k * RepSize) % 65536
RepReads == RepOp \in {M16_OP_MOVSB, M16_OP_MOVSW, M16_OP_LODSB, M16_OP_LODSW}
RepWrites == RepOp \in {M16_OP_MOVSB, M16_OP_MOVSW, M16_OP_STOSB, M16_OP_STOSW}

\* the physical address of byte j of the k-th source and destination element
RepSrc(k, j) ==
    seg_offset_to_phys(mid.seg[M16_SEG_DS], RepIndex(mid.r[M16_REG_R4], k)) + j
RepDst(k, j) ==
    seg_offset_to_phys(mid.seg[M16_SEG_ES], RepIndex(mid.r[M16_REG_R5], k)) + j

\* byte j of the value iteration k stores
RepStored(k, j) ==
    IF RepOp \in {M16_OP_MOVSB, M16_OP_MOVSW} THEN Rd(mid.memory, RepSrc(k, j))
    ELSE IF j = 0 THEN mid.r[M16_REG_R0] % 256
    ELSE mid.r[M16_REG_R0] \div 256

\* exactly RepCount iterations were performed: the index registers moved
\* by RepCount elements, the RepCount destination elements hold the stored
\* values, no other cell changed, and AX holds the last element loaded
RepIterated ==
    /\ cpu.r[M16_REG_R4] =
           IF RepReads THEN RepIndex(mid.r[M16_REG_R4], RepCount)
           ELSE mid.r[M16_REG_R4]
    /\ cpu.r[M16_REG_R5] =
           IF RepWrites THEN RepIndex(mid.r[M16_REG_R5], RepCount)
           ELSE mid.r[M16_REG_R5]
    /\ LET dst == IF RepWrites
                  THEN { RepDst(k, j) : k \in 0 .. RepCount - 1,
                                        j \in 0 .. RepSize - 1 }
                  ELSE {}
       IN  /\ RepWrites =>
                 \A k \in 0 .. RepCount - 1, j \in 0 .. RepSize - 1 :
                    Rd(cpu.memory, RepDst(k, j)) = RepStored(k, j)
           /\ \A a \in (DOMAIN cpu.memory \cup DOMAIN mid.memory) \ dst :
                 Rd(cpu.memory, a) = Rd(mid.memory, a)
    /\ RepOp = M16_OP_LODSB /\ RepCount > 0 =>
          cpu.r[M16_REG_R0] =
              (mid.r[M16_REG_R0] \div 256) * 256
                  + Rd(mid.memory, RepSrc(RepCount - 1, 0))
    /\ RepOp = M16_OP_LODSW /\ RepCount > 0 =>
          cpu.r[M16_REG_R0] = Word(mid.memory, RepSrc(RepCount - 1, 0))
    /\ RepOp \notin {M16_OP_LODSB, M16_OP_LODSW} \/ RepCount = 0 =>
          cpu.r[M16_REG_R0] = mid.r[M16_REG_R0]

Ports == Boundary(32768)

\* four bytes of device data at the port and after it, where they fit in
\* the memory
M16_PortData(p) == <<M16_MMIO_BASE + p, <<17, 34, 51, 68>>>>

\* MOV AX,#0xBEEF / MOV BX,#0x1234 / the port instruction on reg / HLT
M16_IoProgram(opcode, reg, p) ==
    << M16_PortData(p),
       <<M16_DEFAULT_PC,
         <<M16_OP_MOV_RI, M16_REG_R0, 239, 190,
           M16_OP_MOV_RI, 1, 52, 18,
           opcode, reg, p % 256, p \div 256, M16_OP_HLT>> >> >>

M16_IoPrograms ==
    { M16_IoProgram(opcode, reg, p) :
        opcode \in M16_OP_IN .. M16_OP_OUTB, reg \in {0, 1}, p \in Ports }

InitIo ==
    /\ arch = "micro16"
    /\ image \in M16_IoPrograms
    /\ cpu = Loaded(arch, cpu_init(arch), image)
    /\ prev = cpu
    /\ mid = cpu
    /\ op = FirstOp
    /\ ret = 0
    /\ as = AsmIdle

SpecIo == InitIo /\ [][Step]_vars

\* the last step fetched and executed IN, OUT, INB or OUTB
IoExecuted ==
    /\ op.name = "step" /\ Executes(arch, prev)
    /\ cpu.ir \in M16_OP_IN .. M16_OP_OUTB

\* the register and the port the instruction names, and the bytes it moves
IoAt(k) ==
    Rd(mid.memory,
       seg_offset_to_phys(mid.seg[M16_SEG_CS], (mid.pc + k) % 65536))
IoReg == BitAnd(IoAt(1), 7)
IoPort == IoAt(2) + 256 * IoAt(3)
IoSize == IF cpu.ir \in {M16_OP_IN, M16_OP_OUT} THEN 2 ELSE 1
IoAddrs == (M16_MMIO_BASE + IoPort) .. (M16_MMIO_BASE + IoPort + IoSize - 1)
InMmio(addr) ==
    addr >= M16_MMIO_BASE /\ addr < M16_MMIO_BASE + M16_MMIO_SIZE

\* the instruction moved its bytes between the register and the addresses
\* of the port, and touched no other cell and no other register
IoMoved ==
    /\ cpu.mar = M16_MMIO_BASE + IoPort + IoSize - 1
    /\ \A a \in (DOMAIN cpu.memory \cup DOMAIN mid.memory) \ IoAddrs :
          Rd(cpu.memory, a) = Rd(mid.memory, a)
    /\ \A i \in (0 .. 7) \ {IoReg} : cpu.r[i] = mid.r[i]
    /\ cpu.ir = M16_OP_IN =>
          /\ cpu.r[IoReg] = Word(mid.memory, M16_MMIO_BASE + IoPort)
          /\ cpu.memory = mid.memory
    /\ cpu.ir = M16_OP_INB =>
          /\ cpu.r[IoReg] = Rd(mid.memory, M16_MMIO_BASE + IoPort)
          /\ cpu.memory = mid.memory
    /\ cpu.ir = M16_OP_OUT =>
          /\ Word(cpu.memory, M16_MMIO_BASE + IoPort) = mid.r[IoReg]
          /\ cpu.r[IoReg] = mid.r[IoReg]
    /\ cpu.ir = M16_OP_OUTB =>
          /\ Rd(cpu.memory, M16_MMIO_BASE + IoPort) = mid.r[IoReg] % 256
          /\ cpu.r[IoReg] = mid.r[IoReg]

\* C30: for every 16-bit port p, IN, OUT, INB and OUTB read or write only
\* physical address 0xF0000 + p (and the byte after it for the word forms),
\* every address they access lies in the region 0xF0000 .. 0xFFFFF, and
\* they never set the CPU's error.
C30_PortsStayInRegion ==
    IoExecuted =>
        /\ \A a \in IoAddrs : InMmio(a)
        /\ IoMoved
        /\ ~cpu.error

(***************************************************************************)
(* Further claims about Spec.                                              *)
(***************************************************************************)
\* every field of the CPU structure but the memory
Registers(c) == [f \in DOMAIN c \ {"memory"} |-> c[f]]

\* C31: cpu_reset, called in any state of the CPU (Halted, Errored and
\* Waiting included), sets every register, flag, PC, SP, segment register,
\* the halted, error and waiting state and the counters to the values
\* cpu_init gives them and leaves every memory cell as it was, in all three
\* CPUs.
C31_ResetRestoresInit ==
    op.name = "reset" =>
        /\ Registers(cpu) = Registers(cpu_init(arch))
        /\ cpu.memory = prev.memory

\* a reset of the 16-bit CPU that was Errored, with registers, flags and
\* counters changed and a program in its memory
C31_Witness ==
    /\ op.name = "reset" /\ arch = "micro16"
    /\ prev.error /\ prev.instructions > 1 /\ prev.r[M16_REG_R0] # 0
    /\ prev.seg[M16_SEG_CS] # M16_DEFAULT_CS
    /\ cpu.memory = prev.memory /\ cpu.memory # EmptyMem
    /\ ~cpu.error /\ cpu.instructions = 0 /\ cpu.r[M16_REG_R0] = 0
    /\ cpu.seg[M16_SEG_CS] = M16_DEFAULT_CS

(***************************************************************************)
(* SpecLoad: cpu_load_program called with programs and start addresses     *)
(* around the ends of each memory.                                         *)
(***************************************************************************)
\* the longest program and the number of calls in one run
MaxBytes == 2
MaxLoads == 2

MemSize(ar) ==
    CASE ar = "micro4" -> M4_MEM_SIZE
      [] ar = "micro8" -> M8_MEM_SIZE
      [] ar = "micro16" -> M16_MEM_SIZE

\* the uint8_t values of a program
LoadBytes == {0, 7, 255}
LoadPrograms == UNION { [1 .. n -> LoadBytes] : n \in 0 .. MaxBytes }

\* the start addresses: the type of the parameter is uint8_t on Micro4,
\* uint16_t on Micro8 and uint32_t on Micro16, whose memory ends below it
LoadStarts(ar) ==
    {0, MemSize(ar) - MaxBytes, MemSize(ar) - 1}
        \cup (IF ar = "micro16"
              THEN {M16_MEM_SIZE, M16_MEM_SIZE + 1, 1024 * M16_MEM_SIZE}
              ELSE {})

InitLoad ==
    /\ arch \in Archs
    /\ image = <<>>
    /\ cpu = cpu_init(arch)
    /\ prev = cpu
    /\ mid = cpu
    /\ op = FirstOp
    /\ ret = 0
    /\ as = [pass |-> "load", loads |-> 0, program |-> <<>>, start |-> 0]

\* cpu_load_program
LoadProgram ==
    /\ as.pass = "load" /\ as.loads < MaxLoads
    /\ \E program \in LoadPrograms, start \in LoadStarts(arch) :
          /\ cpu' = cpu_load_program(arch, cpu, program, start)
          /\ as' = [as EXCEPT !.loads = @ + 1, !.program = program,
                              !.start = start]
    /\ prev' = cpu
    /\ op' = [op EXCEPT !.name = "load_program", !.before = op.name]
    /\ UNCHANGED <<arch, image, mid, ret>>

SpecLoad == InitLoad /\ [][LoadProgram]_vars

\* the addresses the last call had to write: start + i inside the memory
LoadSpan ==
    { a \in as.start .. as.start + Len(as.program) - 1 : a < MemSize(arch) }

\* the last call wrote stored(byte i) at start + i for the i of LoadSpan,
\* changed no other cell and no register, and set no error
LoadWrote(stored(_)) ==
    /\ \A a \in LoadSpan :
          Rd(cpu.memory, a) = stored(as.program[a - as.start + 1])
    /\ \A a \in (DOMAIN cpu.memory \cup DOMAIN prev.memory) \ LoadSpan :
          /\ a \in DOMAIN prev.memory
          /\ Rd(cpu.memory, a) = Rd(prev.memory, a)
    /\ Registers(cpu) = Registers(prev)
    /\ ~cpu.error

AsGiven(byte) == byte
AsStored(byte) == IF arch = "micro4" THEN BitAnd(byte, M4_NIBBLE_MASK) ELSE byte

\* C32 as stated: load_program with start address s and n bytes writes byte
\* i to address s + i for exactly the i with s + i inside the address
\* space, changes no other cell (no wrap-around) and no register, and never
\* sets the error state.
C32_LoadCopiesBytes == op.name = "load_program" => LoadWrote(AsGiven)

\* C32: as above, the value written on the 4-bit CPU being the low four
\* bits of byte i.
C32_LoadCopiesNibbles == op.name = "load_program" => LoadWrote(AsStored)

\* two bytes loaded at the last address of the 8-bit memory over a first
\* program: the first byte is stored, the second is dropped, address 0 keeps
\* what the first call put there
C32_Witness ==
    /\ op.name = "load_program" /\ arch = "micro8" /\ as.loads = 2
    /\ as.start = M8_MEM_SIZE - 1 /\ as.program = <<7, 255>>
    /\ Rd(prev.memory, 0) = 255 /\ Rd(cpu.memory, 0) = 255
    /\ Rd(cpu.memory, M8_MEM_SIZE - 1) = 7

(***************************************************************************)
(* SpecRun: cpu_run with a positive cycle budget, one iteration of its     *)
(* loop at a time.                                                         *)
(***************************************************************************)
\* the largest max_cycles
MaxCycles == 9

\* the condition of cpu_run's while loop: Micro16 also leaves on error
run_continues(ar, c, max_cycles, total_cycles) ==
    /\ ~c.halted
    /\ ar = "micro16" => ~c.error
    /\ max_cycles <= 0 \/ total_cycles < max_cycles

\* programs that never halt: a jump to itself on each CPU
RunLoops(ar) ==
    CASE ar = "micro4" -> { << <<0, <<M4_OP_JMP, 0, 0, 0>>>> >> }
      [] ar = "micro8" ->
           { << <<M8_DEFAULT_PC, <<M8_OP_JMP, 0, 2>>>>, M8_Handler >> }
      [] ar = "micro16" ->
           { << <<M16_DEFAULT_PC, <<M16_OP_JMP, 0, 1>>>> >> \o M16_Vectors }

\* cpu_run is entered on a loaded CPU, with or without a request pending
InitRun ==
    /\ arch \in Archs
    /\ image \in Programs(arch) \cup RunLoops(arch)
    /\ \/ cpu = Loaded(arch, cpu_init(arch), image)
       \/ /\ arch # "micro4"
          /\ cpu = cpu_request_interrupt(
                       arch, Loaded(arch, cpu_init(arch), image), 1)
    /\ prev = cpu
    /\ mid = cpu
    /\ op = FirstOp
    /\ ret = 0
    /\ \E max_cycles \in 1 .. MaxCycles :
          as = [pass |-> "run", max_cycles |-> max_cycles, total_cycles |-> 0]

\* one iteration of the loop: cpu_step, the break when it returned 0
RunIteration ==
    /\ as.pass = "run"
    /\ run_continues(arch, cpu, as.max_cycles, as.total_cycles)
    /\ \E s \in {cpu_step(arch, cpu)} :
           /\ cpu' = s.cpu
           /\ mid' = s.mid
           /\ ret' = s.ret
           /\ as' = IF s.ret = 0 THEN [as EXCEPT !.pass = "returned"]
                    ELSE [as EXCEPT !.total_cycles = @ + s.ret]
    /\ prev' = cpu
    /\ op' = [op EXCEPT !.name = "step", !.before = op.name]
    /\ UNCHANGED <<arch, image>>

\* the loop condition fails: cpu_run returns total_cycles
RunReturn ==
    /\ as.pass = "run"
    /\ ~run_continues(arch, cpu, as.max_cycles, as.total_cycles)
    /\ as' = [as EXCEPT !.pass = "returned"]
    /\ ret' = as.total_cycles
    /\ op' = [op EXCEPT !.name = "run", !.before = op.name]
    /\ UNCHANGED <<arch, image, cpu, prev, mid>>

NextRun == RunIteration \/ RunReturn

\* the most cycles one cpu_step may add to the total
MaxStep == 32

\* a step of the loop seen by the loop's own bookkeeping: under NextRun the
\* steps that change as are the steps of NextRun, and one is possible
\* exactly while the call has not returned
RunAdvance ==
    /\ as.pass = "run"
    /\ as' \in [pass : {"run", "returned"},
                max_cycles : {as.max_cycles},
                total_cycles : as.total_cycles .. as.total_cycles + MaxStep]
    /\ as' # as

\* the call runs on: the caller's thread is not stopped inside cpu_run
SpecRun == InitRun /\ [][NextRun]_vars /\ WF_as(RunAdvance)

\* C33: cpu_run with max_cycles > 0 returns, whatever the CPU state and the
\* memory hold (a Waiting CPU that gets no interrupt included), and when it
\* has returned the CPU is Halted or Errored or the total is at least
\* max_cycles.
C33_RunReturns ==
    /\ <>(as.pass = "returned")
    /\ [](as.pass = "returned" =>
            cpu.halted \/ cpu.error \/ as.total_cycles >= as.max_cycles)

\* a run of the 16-bit CPU that returned with the CPU still Waiting, neither
\* Halted nor Errored, the budget used up by the steps spent waiting
C33_Witness ==
    /\ as.pass = "returned" /\ arch = "micro16"
    /\ cpu.waiting /\ ~cpu.halted /\ ~cpu.error
    /\ as.max_cycles = MaxCycles /\ as.total_cycles >= MaxCycles
    /\ prev = cpu /\ op.before = "step"

(***************************************************************************)
(* SpecEnc: one instruction assembled by the 8-bit or the 16-bit           *)
(* assembler, its bytes loaded at the origin and executed by one cpu_step. *)
(***************************************************************************)
\* the registers the 16-bit lines name, and the offsets of their operands
EncRegs == {0, 1, 3, 7}
EncOffsets == {-2, 0, 4}

M8_EncLines ==
    { Line("", "ins", mn, <<Reg(rd), Reg(rs)>>) :
        mn \in {"MOV"} \cup DOMAIN m8_reg_reg, rd \in 0 .. 7, rs \in 0 .. 7 }
      \cup { Line("", "ins", "MOV", <<Reg(1), Num(2)>>),
             Line("", "ins", "ADD", <<Num(1), Reg(2)>>) }

M16_EncLines ==
    { Line("", "ins", mn, <<Reg(rd), Reg(rs)>>) :
        mn \in {"MOV", "ADD", "SUB"}, rd \in EncRegs \cup {SP},
        rs \in EncRegs \cup {SP} }
      \cup { Line("", "ins", mn, <<Reg(rd), Num(n)>>) :
               mn \in {"MOV", "ADD", "SUB"}, rd \in EncRegs \cup {SP},
               n \in {4, 65535} }
      \cup { Line("", "ins", mn, <<Reg(rd), Idx(rs, n)>>) :
               mn \in {"LD", "LEA"}, rd \in EncRegs, rs \in EncRegs \cup {SP},
               n \in EncOffsets }
      \cup { Line("", "ins", "NOP", <<>>), Line("", "ins", "HLT", <<>>),
             Line("", "ins", "JMP", <<Num(512)>>) }

EncLines(ar) == IF ar = "micro8" THEN M8_EncLines ELSE M16_EncLines

\* what the registers hold when the instruction is reached
EncFiles(ar) ==
    IF ar = "micro8"
    THEN { [i \in 0 .. 7 |-> 16 * i + 3], [i \in 0 .. 7 |-> 255 - i] }
    ELSE { [i \in 0 .. 7 |-> 4096 * i + 3], [i \in 0 .. 7 |-> 65535 - i] }

InitEnc ==
    /\ arch \in {"micro8", "micro16"}
    /\ image = <<>>
    /\ \E r \in EncFiles(arch) : cpu = [cpu_init(arch) EXCEPT !.r = r]
    /\ prev = cpu
    /\ mid = cpu
    /\ op = FirstOp
    /\ ret = 0
    /\ \E line \in EncLines(arch) :
          as = [st |-> asm_init(arch), src |-> <<line>>, pass |-> "source"]

\* asm_assemble on the one-line source
EncAssemble ==
    /\ as.pass = "source"
    /\ \E r \in {asm_assemble(arch, as.src)} :
          as' = [as EXCEPT !.st = r.as,
                           !.pass = IF r.ok THEN "assembled" ELSE "failed"]
    /\ UNCHANGED <<arch, image, cpu, prev, mid, op, ret>>

\* the bytes from the origin to max_addr, as asm_write_binary writes them,
\* loaded where the CPU starts
EncLoad ==
    /\ as.pass = "assembled"
    /\ image' = << <<as.st.origin,
                     [i \in 1 .. as.st.max_addr - as.st.origin + 1 |->
                        Rd(as.st.output, as.st.origin + i - 1)]>> >>
    /\ cpu' = Loaded(arch, cpu, image')
    /\ prev' = cpu
    /\ mid' = cpu'
    /\ as' = [as EXCEPT !.pass = "loaded"]
    /\ op' = [op EXCEPT !.name = "load", !.before = op.name]
    /\ UNCHANGED <<arch, ret>>

\* one cpu_step on the loaded instruction
EncStep ==
    /\ as.pass = "loaded"
    /\ \E s \in {cpu_step(arch, cpu)} :
          /\ cpu' = s.cpu
          /\ mid' = s.mid
          /\ ret' = s.ret
    /\ prev' = cpu
    /\ as' = [as EXCEPT !.pass = "stepped"]
    /\ op' = [op EXCEPT !.name = "step", !.before = op.name]
    /\ UNCHANGED <<arch, image>>

NextEnc == EncAssemble \/ EncLoad \/ EncStep

SpecEnc == InitEnc /\ [][NextEnc]_vars

\* the one line, its operands, and the first byte the assembler emitted
EncLine == as.src[1]
EncFirstByte == Rd(as.st.output, as.st.origin)
EncStepped(ar, mns) ==
    arch = ar /\ as.pass = "stepped" /\ EncLine.mn \in mns

\* the general registers but those of the set keep what they held
RegsKept(changed) == \A i \in (0 .. 7) \ changed : cpu.r[i] = prev.r[i]

\* C34: every instruction the 16-bit assembler assembles begins with an
\* opcode byte that cpu_step has a case for: the step that executes it
\* fetches that byte and reports no unknown opcode.
C34_EncoderDecoderInSync ==
    (arch = "micro16" /\ as.pass = "stepped") =>
        /\ cpu.ir = EncFirstByte
        /\ cpu.ir \in M16_KnownOpcodes
        /\ cpu.error_msg.text # "Unknown opcode"

\* what the 8-bit cpu_step takes an opcode byte, and the byte after it, for:
\* the arithmetic and logic on two registers always work on R0
m8_decoded(opcode, operand) ==
    LET onR0(mn) == [mn |-> mn, rd |-> 0, rs |-> BitAnd(opcode, 7)]
    IN  CASE m8_in(opcode, M8_OP_ADD_BASE) -> onR0("ADD")
          [] m8_in(opcode, M8_OP_ADC_BASE) -> onR0("ADC")
          [] m8_in(opcode, M8_OP_SUB_BASE) -> onR0("SUB")
          [] m8_in(opcode, M8_OP_SBC_BASE) -> onR0("SBC")
          [] m8_in(opcode, M8_OP_CMP_BASE) -> onR0("CMP")
          [] m8_in(opcode, M8_OP_AND_BASE) -> onR0("AND")
          [] m8_in(opcode, M8_OP_OR_BASE) -> onR0("OR")
          [] m8_in(opcode, M8_OP_XOR_BASE) -> onR0("XOR")
          [] opcode = M8_OP_MOV_RR ->
               [mn |-> "MOV", rd |-> BitAnd(operand \div 16, 7),
                rs |-> BitAnd(operand, 7)]
          [] OTHER -> [mn |-> "", rd |-> 0, rs |-> 0]

\* C35: for every pair of registers Rd and Rs, the bytes the 8-bit assembler
\* emits for MOV Rd,Rs and for ADD, ADC, SUB, SBC, AND, OR, XOR and CMP
\* Rd,Rs are taken by the 8-bit CPU for the same operation with the same
\* destination and the same source.
C35_RegisterPairsDecoded ==
    EncStepped("micro8", {"MOV"} \cup DOMAIN m8_reg_reg) =>
        m8_decoded(cpu.ir, Rd(prev.memory, prev.pc + 1)) =
            [mn |-> EncLine.mn, rd |-> EncLine.args[1].n,
             rs |-> EncLine.args[2].n]

\* C36: LEA Rd,[Rs+offset], assembled by the 16-bit assembler and executed,
\* leaves (Rs + offset) mod 2^16 in Rd and changes no other general
\* register.
C36_LeaAddsOffset ==
    (EncStepped("micro16", {"LEA"}) /\ EncLine.args[2].base >= 0) =>
        /\ cpu.r[EncLine.args[1].n] =
               (prev.r[EncLine.args[2].base] + EncLine.args[2].n) % 65536
        /\ RegsKept({EncLine.args[1].n})

(***************************************************************************)
(* SpecCnt: the calls of cpu_step since the last reset, with the sum of    *)
(* the values they returned and the number of them that returned non-zero. *)
(***************************************************************************)
\* the most calls of cpu_step after a reset
MaxCalls == 6

InitCnt ==
    /\ arch \in Archs
    /\ image \in Programs(arch)
    /\ cpu = Loaded(arch, cpu_init(arch), image)
    /\ prev = cpu
    /\ mid = cpu
    /\ op = FirstOp
    /\ ret = 0
    /\ as = [pass |-> "idle", steps |-> 0, returned |-> 0, nonzero |-> 0]

\* cpu_step, and what its caller adds up
CountedStep ==
    /\ as.steps < MaxCalls
    /\ \E s \in {cpu_step(arch, cpu)} :
          /\ cpu' = s.cpu
          /\ mid' = s.mid
          /\ ret' = s.ret
          /\ as' = [as EXCEPT !.steps = @ + 1,
                              !.returned = @ + s.ret,
                              !.nonzero = @ + IF s.ret # 0 THEN 1 ELSE 0]
    /\ prev' = cpu
    /\ op' = [op EXCEPT !.name = "step", !.before = op.name]
    /\ UNCHANGED <<arch, image>>

\* cpu_reset, after which the caller counts from zero again
CountedReset ==
    /\ op.resets < MaxResets
    /\ cpu' = cpu_reset(arch, cpu)
    /\ prev' = cpu
    /\ op' = [name |-> "reset", before |-> op.name, resets |-> op.resets + 1]
    /\ as' = [as EXCEPT !.steps = 0, !.returned = 0, !.nonzero = 0]
    /\ UNCHANGED <<arch, image, mid, ret>>

NextCnt == CountedStep \/ RequestInterrupt \/ CountedReset

SpecCnt == InitCnt /\ [][NextCnt]_vars

\* C37: over the calls of cpu_step since the last reset, the cycle counter
\* of the CPU is the sum of the values the calls returned, and the
\* instruction counter is the number of calls that returned non-zero, the
\* steps spent Waiting and the step of an unknown opcode included.
C37_CountersAddUp ==
    /\ cpu.cycles = as.returned
    /\ cpu.instructions = as.nonzero

(***************************************************************************)
(* Further claims about Spec: a request from its making to its dispatch.   *)
(***************************************************************************)
\* the bytes a dispatch pushes: PC and flags on Micro8, flags, CS and PC on
\* Micro16
FrameSize(ar) == IF ar = "micro8" THEN 3 ELSE 6

\* the step being taken dispatches: before its fetch the request is taken
\* off, interrupts are disabled and the frame is on the stack
Dispatches ==
    /\ ~mid'.int_pending
    /\ ~IntEnabled(arch, mid')
    /\ mid'.sp = (cpu.sp - FrameSize(arch)) % 65536

\* C38: a request made while interrupt-enable is clear stays pending over
\* every step that starts with interrupt-enable clear; the first step of a
\* running CPU that starts with interrupt-enable set dispatches it and
\* leaves the pending flag clear; and a step that starts with nothing
\* pending dispatches nothing, so that there is no second dispatch without
\* a new request.
C38_PendingUntilEnabled ==
    [][(op'.name = "step" /\ arch # "micro4") =>
          /\ (cpu.int_pending /\ ~IntEnabled(arch, cpu)) =>
                 mid' = cpu /\ cpu'.int_pending
          /\ (cpu.int_pending /\ IntEnabled(arch, cpu) /\ Runs(cpu)) =>
                 Dispatches /\ ~cpu'.int_pending
          /\ ~cpu.int_pending => mid' = cpu /\ ~cpu'.int_pending]_vars

\* the 16-bit CPU dispatches a request that the step before left pending:
\* that step started with I clear and set it
C38_Witness ==
    /\ op.name = "step" /\ op.before = "step" /\ arch = "micro16"
    /\ prev.int_pending /\ IntEnabled(arch, prev) /\ Runs(prev)
    /\ ~mid.int_pending /\ ~cpu.int_pending
    /\ mid.sp = (prev.sp - 6) % 65536
    /\ ~IntEnabled(arch, mid)

(***************************************************************************)
(* SpecRet: a request dispatched to a handler that returns with RETI or    *)
(* IRET, the stack as the dispatch left it.                                *)
(***************************************************************************)
M8_RetFlags == {0, M8_FLAG_C, M8_FLAG_Z + M8_FLAG_S, 255}
M16_RetFlags == {M16_FLAG_I, M16_FLAG_I + M16_FLAG_T + M16_FLAG_C, 255, 65535}

\* what the handler does before it returns
RetPrologues(nop) == {<<>>, <<nop>>, <<nop, nop>>}

\* the byte POPF pops (at 0x0000, the stack pointer starting at 0xFFFF),
\* POPF / NOP / EI / NOP / HLT, and the handler at INT_VECTOR
M8_RetPrograms ==
    { << <<0, <<fl>>>>,
         <<M8_DEFAULT_PC,
           <<M8_OP_POPF, M8_OP_NOP, M8_OP_EI, M8_OP_NOP, M8_OP_HLT>>>>,
         <<M8_INT_VECTOR, pro \o <<M8_OP_RETI>>>> >> :
        fl \in M8_RetFlags, pro \in RetPrologues(M8_OP_NOP) }

\* table entry 1 (0020:0010, the handler at physical 0x00210), the word
\* POPF pops, POPF / NOP / HLT at the default 0000:0100, and the handler
M16_RetPrograms ==
    { << <<M16_IVT_BASE + 4, <<16, 0, 32, 0>>>>,
         <<seg_offset_to_phys(M16_DEFAULT_SS, M16_DEFAULT_SP),
           <<fl % 256, fl \div 256>>>>,
         <<M16_DEFAULT_PC, <<M16_OP_POPF, M16_OP_NOP, M16_OP_HLT>>>>,
         <<528, pro \o <<M16_OP_IRET>>>> >> :
        fl \in M16_RetFlags, pro \in RetPrologues(M16_OP_NOP) }

\* a device's request is pending from the start
InitRet ==
    /\ arch \in {"micro8", "micro16"}
    /\ image \in (IF arch = "micro8" THEN M8_RetPrograms ELSE M16_RetPrograms)
    /\ cpu = cpu_request_interrupt(arch, Loaded(arch, cpu_init(arch), image), 1)
    /\ prev = cpu
    /\ mid = cpu
    /\ op = FirstOp
    /\ ret = 0
    /\ as = [pass |-> "idle", dispatched |-> FALSE, before |-> cpu]

\* cpu_step; the structure as it was immediately before a dispatch is kept
RetStep ==
    /\ \E s \in {cpu_step(arch, cpu)} :
          /\ cpu' = s.cpu
          /\ mid' = s.mid
          /\ ret' = s.ret
    /\ as' = IF Runs(cpu) /\ cpu.int_pending /\ IntEnabled(arch, cpu)
             THEN [as EXCEPT !.dispatched = TRUE, !.before = cpu]
             ELSE as
    /\ prev' = cpu
    /\ op' = [op EXCEPT !.name = "step", !.before = op.name]
    /\ UNCHANGED <<arch, image>>

SpecRet == InitRet /\ [][RetStep]_vars

\* the last step executed the return-from-interrupt instruction
Returned ==
    /\ op.name = "step" /\ Executes(arch, prev) /\ as.dispatched
    /\ cpu.ir = (IF arch = "micro8" THEN M8_OP_RETI ELSE M16_OP_IRET)

\* C39: when the handler of a dispatched request executes RETI (8-bit) or
\* IRET (16-bit) with the stack as the dispatch left it, PC, SP, the flags
\* and on the 16-bit CPU CS are what they were immediately before the
\* dispatch, and interrupts are enabled.
C39_DispatchReturnRoundTrip ==
    Returned =>
        /\ cpu.pc = as.before.pc
        /\ cpu.sp = as.before.sp
        /\ cpu.flags = as.before.flags
        /\ arch = "micro16" => cpu.seg = as.before.seg
        /\ IntEnabled(arch, cpu)

\* the 16-bit CPU back at 0000:0101 from the handler in segment 0x0020,
\* after a prologue, the frame having wrapped around the end of the stack
\* segment, with every flag as before
C39_Witness ==
    /\ Returned /\ arch = "micro16"
    /\ prev.seg[M16_SEG_CS] = 32 /\ prev.pc = 18
    /\ prev.sp = 65530 /\ cpu.sp = 0
    /\ cpu.seg[M16_SEG_CS] = 0 /\ cpu.pc = 257
    /\ cpu.flags = 65535 /\ ~IntEnabled(arch, prev)

(***************************************************************************)
(* SpecDiv: DIV on the 16-bit CPU, the dividend in R3:R0.                  *)
(***************************************************************************)
DivLows == {0, 1, 7, 65535}
DivHighs == {0, 1, 2, 32767}
DivDivisors == {1, 2, 3, 65535}

\* MOV R0,#low / MOV R3,#high / MOV Rk,#d / DIV Rk / HLT
M16_DivPrograms ==
    { << <<M16_DEFAULT_PC,
           <<M16_OP_MOV_RI, M16_REG_R0, low % 256, low \div 256,
             M16_OP_MOV_RI, M16_REG_R3, high % 256, high \div 256,
             M16_OP_MOV_RI, k, d % 256, d \div 256,
             M16_OP_DIV, k, M16_OP_HLT>>>> >> :
        low \in DivLows, high \in DivHighs, d \in DivDivisors, k \in {1, 2} }

InitDiv ==
    /\ arch = "micro16"
    /\ image \in M16_DivPrograms
    /\ cpu = Loaded(arch, cpu_init(arch), image)
    /\ prev = cpu
    /\ mid = cpu
    /\ op = FirstOp
    /\ ret = 0
    /\ as = AsmIdle

SpecDiv == InitDiv /\ [][Step]_vars

\* the last step executed DIV; its divisor and its dividend
DivExecuted == op.name = "step" /\ Executes(arch, prev) /\ cpu.ir = M16_OP_DIV
DivDivisor ==
    prev.r[BitAnd(Rd(prev.memory,
                     seg_offset_to_phys(prev.seg[M16_SEG_CS],
                                        (prev.pc + 1) % 65536)), 7)]
DivDividend == prev.r[M16_REG_R3] * 65536 + prev.r[M16_REG_R0]

\* C40: DIV with a non-zero divisor d and the dividend N in R3:R0 leaves a
\* quotient q in R0 and a remainder r in R3 with N = q * d + r and
\* 0 <= r < d, for every N and d.
C40_DivQuotientRemainder ==
    (DivExecuted /\ DivDivisor # 0) =>
        /\ DivDividend = cpu.r[M16_REG_R0] * DivDivisor + cpu.r[M16_REG_R3]
        /\ cpu.r[M16_REG_R3] >= 0
        /\ cpu.r[M16_REG_R3] < DivDivisor

====
